---- MODULE Spec2Model ----
(***************************************************************************)
(* Chunkpad chunking engine: block model, token counter, the four          *)
(* chunking strategies, the strategy registry and the page handlers that   *)
(* request chunking.                                                       *)
(*                                                                         *)
(* Text representation.  A string is a sequence of whitespace-delimited    *)
(* units; a unit is a non-empty sequence of atoms.  An atom is a word      *)
(* ([k |-> "w", id, dot, n], dot = the word ends in . ! or ?, n = the      *)
(* number of tokens the encoder yields for it) or a markup tag             *)
(* ([k |-> "o", tag] opening, [k |-> "c", tag] closing).  Tags are glued   *)
(* to the neighbouring word exactly as in "<p>Hello world.</p>", whose     *)
(* units are "<p>Hello" and "world.</p>".  The kind of whitespace between  *)
(* units (" " or "\n") is not recorded.                                    *)
(***************************************************************************)
EXTENDS Integers, Sequences, FiniteSets, TLC

VARIABLES
    structure,      \* the Document Structure handed to the strategy
    options,        \* the caller's options record of the last call
    strategyId,     \* strategy of the last call ("none" before any call)
    chunks,         \* chunk list returned by the last call
    now,            \* the Date.now() reading of the last call
    swPos,          \* sliding window: loop variable position
    swIter,         \* sliding window: iterations of the while loop so far
    phase,          \* "ready" | "window" | "done"
    strategies,     \* registry: the Map from strategy id to implementation
    registered,     \* history: the strategies passed to registerStrategy, in call order
    dom,            \* the children of the body of the document DOMParser returned
    instanceDefaults, \* the defaultOptions objects of the strategy instances, by id
    files,          \* page state: DocFile list
    chunksData,     \* page state: ChunksMap
    selectedFileId, \* page state
    selectedChunkId,\* page state
    fileChunkingConfig, \* page state: per-file strategy and options
    chunkSize,      \* page state: legacy chunk size setting
    overlapSize,    \* page state: legacy overlap setting
    pending,        \* requests suspended at their await, with their closures
    issued,         \* number of chunking requests made so far
    outcome         \* what the last request ended in

vars == <<structure, options, strategyId, chunks, now, swPos, swIter, phase,
          strategies, registered, dom, instanceDefaults, files, chunksData, selectedFileId, selectedChunkId,
          fileChunkingConfig, chunkSize, overlapSize, pending, issued, outcome>>

engineVars == <<structure, options, strategyId, chunks, now, swPos, swIter, phase>>

pageVars == <<strategies, registered, dom, instanceDefaults, files, chunksData, selectedFileId, selectedChunkId,
              fileChunkingConfig, chunkSize, overlapSize, pending, issued, outcome>>

(***************************************************************************)
(* Bounds of the model.                                                    *)
(***************************************************************************)
MaxBlocks == 3

MaxOutline == 4

(***************************************************************************)
(* Generic helpers.                                                        *)
(***************************************************************************)
Min(a, b) == IF a < b THEN a ELSE b

Max(a, b) == IF a > b THEN a ELSE b

RECURSIVE Flatten(_)
Flatten(ss) == IF ss = <<>> THEN <<>> ELSE Head(ss) \o Flatten(Tail(ss))

RECURSIVE SumSeq(_)
SumSeq(ns) == IF ns = <<>> THEN 0 ELSE Head(ns) + SumSeq(Tail(ns))

Last(s) == s[Len(s)]

\* Array.prototype.slice(-k): the last k elements; slice(-0) is slice(0), the whole array
SliceLast(s, k) == IF k = 0 THEN s ELSE SubSeq(s, Max(1, Len(s) - k + 1), Len(s))

(***************************************************************************)
(* Atoms, units, strings.                                                  *)
(***************************************************************************)
Word(i, d, n) == [k |-> "w", id |-> i, dot |-> d, n |-> n]

Open(t) == [k |-> "o", tag |-> t]

Close(t) == [k |-> "c", tag |-> t]

IsWord(a) == a.k = "w"

\* content.replace(/<[^>]*>/g, ''): every tag removed, the words stay where they are
stripTags(s) ==
    LET bare == [i \in 1..Len(s) |-> SelectSeq(s[i], IsWord)]
    IN  SelectSeq(bare, LAMBDA u : u # <<>>)

\* the words of a string in order, whatever markup surrounds them
plainWords(s) == Flatten(stripTags(s))

\* `<tag>${text}</tag>` where text is a string of plain units
wrap(t, text) ==
    IF Len(text) = 1
    THEN << <<Open(t)>> \o text[1] \o <<Close(t)>> >>
    ELSE << <<Open(t)>> \o text[1] >> \o SubSeq(text, 2, Len(text) - 1)
         \o << Last(text) \o <<Close(t)>> >>

\* tokens the encoder yields for one unit: n per word, one per tag
unitTokens(u) == SumSeq([j \in 1..Len(u) |-> IF IsWord(u[j]) THEN u[j].n ELSE 1])

\* countTokens: encoder.encode(text).length
countTokens(s) == SumSeq([i \in 1..Len(s) |-> unitTokens(s[i])])

\* text.match(/[^.!?]+[.!?]+/g): the runs that end in a terminator; text after
\* the last terminator matches nothing; no terminator at all gives null (<<>>)
RECURSIVE matchSentences(_)
matchSentences(text) ==
    LET ends == {i \in 1..Len(text) : Last(text[i]).k = "w" /\ Last(text[i]).dot}
    IN  IF ends = {} THEN <<>>
        ELSE LET e == CHOOSE i \in ends : \A j \in ends : i <= j
             IN  <<SubSeq(text, 1, e)>> \o matchSentences(SubSeq(text, e + 1, Len(text)))

\* text.match(...) || [text]
sentencesOf(text) == IF matchSentences(text) = <<>> THEN <<text>> ELSE matchSentences(text)

(***************************************************************************)
(* Blocks and Document Structures (htmlToDocumentBlocks output).           *)
(***************************************************************************)
TagOf(type, level) ==
    CASE type = "heading" -> <<"h", level>>
      [] type = "slideTitle" -> <<"h", level>>
      [] type = "paragraph" -> <<"p", 0>>
      [] type = "listItem" -> <<"li", 0>>
      [] type = "table" -> <<"table", 0>>
      [] type = "code" -> <<"pre", 0>>
      [] OTHER -> <<"div", 0>>

\* one block as the normalizer emits it: text is the element's textContent,
\* html its outerHTML
Block(type, level, text, page) ==
    [type |-> type, level |-> level, text |-> text,
     html |-> wrap(TagOf(type, level), text), page |-> page]

IsHeading(b) == b.type = "heading" \/ b.type = "slideTitle"

(***************************************************************************)
(* Options: each strategy publishes defaults; chunk() shallow-merges the   *)
(* caller's record on top ({ ...this.defaultOptions, ...options }).        *)
(***************************************************************************)
mergeOptions(defaults, o) ==
    [key \in (DOMAIN defaults) \cup (DOMAIN o) |->
        IF key \in DOMAIN o THEN o[key] ELSE defaults[key]]

FixedSizeDefaults == [maxTokens |-> 1000, overlapTokens |-> 150]

HeadingAwareDefaults ==
    [maxTokens |-> 1000, overlapTokens |-> 150, minChunkTokens |-> 200,
     subChunkingStrategy |-> "paragraph"]

ParagraphAwareDefaults ==
    [maxTokens |-> 1000, overlapTokens |-> 150, minParagraphsPerChunk |-> 1,
     maxParagraphsPerChunk |-> 10]

SlidingWindowDefaults ==
    [windowSize |-> 1000, overlapSize |-> 200, preserveWordBoundaries |-> TRUE,
     preserveSentenceBoundaries |-> FALSE]

\* the defaultOptions every strategy instance is constructed with
PublishedDefaults ==
    [id \in {"fixed-size", "heading-aware", "paragraph-aware", "sliding-window"} |->
        CASE id = "fixed-size" -> FixedSizeDefaults
          [] id = "heading-aware" -> HeadingAwareDefaults
          [] id = "paragraph-aware" -> ParagraphAwareDefaults
          [] id = "sliding-window" -> SlidingWindowDefaults]

(***************************************************************************)
(* Fixed-Size strategy.                                                    *)
(***************************************************************************)
\* content.match(/<h[1-6][^>]*>([^<]+)<\/h[1-6]>/i) over the atoms of a content:
\* the words between the first heading tag that is followed by words only and
\* the closing heading tag after them; <<>> when there is no match
RECURSIVE headingMatch(_)
headingMatch(atoms) ==
    IF atoms = <<>> THEN <<>>
    ELSE LET rest == Tail(atoms)
             stops == {i \in 1..Len(rest) : ~IsWord(rest[i])}
             stop == IF stops = {} THEN Len(rest) + 1
                     ELSE CHOOSE i \in stops : \A j \in stops : i <= j
         IN  IF /\ Head(atoms).k = "o"
                /\ Head(atoms).tag[1] = "h"
                /\ stop > 1
                /\ stop <= Len(rest)
                /\ rest[stop].k = "c"
                /\ rest[stop].tag[1] = "h"
             THEN SubSeq(rest, 1, stop - 1)
             ELSE headingMatch(rest)

\* the title of a Fixed-Size chunk: `Chunk ${number}: ${headingMatch[1]}`, or
\* `Chunk ${number}: Section` (heading <<>>) without a match
FS_title(content, number) ==
    [number |-> number, heading |-> headingMatch(Flatten(content))]

\* FixedSizeStrategy.createChunk: tokens are counted on the content as given
FS_createChunk(content, number, t) ==
    [id |-> <<number, t>>, number |-> number, title |-> FS_title(content, number),
     content |-> content, tokens |-> countTokens(content), strategy |-> "fixed-size"]

\* the sentence loop over an oversized block (st: chunks, buf, tok, num)
RECURSIVE FS_packSentences(_, _, _, _)
FS_packSentences(st, sentences, maxTokens, t) ==
    IF sentences = <<>> THEN st
    ELSE LET sentence == Head(sentences)
             tokens == countTokens(sentence)
             nxt == IF st.tok + tokens > maxTokens /\ st.buf # <<>>
                    THEN [chunks |-> Append(st.chunks, FS_createChunk(st.buf, st.num, t)),
                          buf |-> sentence, tok |-> tokens, num |-> st.num + 1]
                    ELSE [st EXCEPT !.buf = st.buf \o sentence, !.tok = st.tok + tokens]
         IN  FS_packSentences(nxt, Tail(sentences), maxTokens, t)

\* the overlap seeded into the new buffer: currentChunk.split(/\s+/)
\* .slice(-Math.floor(overlapTokens / 2)).join(" ")
FS_overlapText(currentChunk, overlapTokens) ==
    SliceLast(currentChunk, overlapTokens \div 2)

\* one iteration of the block loop of FixedSizeStrategy.chunk
FS_step(st, block, maxTokens, overlapTokens, t) ==
    LET blockTokens == countTokens(block)
    IN  IF blockTokens > maxTokens
        THEN LET flushed == IF st.buf # <<>>
                            THEN [chunks |-> Append(st.chunks, FS_createChunk(st.buf, st.num, t)),
                                  buf |-> <<>>, tok |-> 0, num |-> st.num + 1]
                            ELSE st
                 sentences == sentencesOf(stripTags(block))
             IN  IF Len(sentences) > 1
                 THEN FS_packSentences([flushed EXCEPT !.buf = <<>>, !.tok = 0],
                                       sentences, maxTokens, t)
                 ELSE [flushed EXCEPT
                          !.chunks = Append(flushed.chunks, FS_createChunk(block, flushed.num, t)),
                          !.num = flushed.num + 1]
        ELSE IF st.tok + blockTokens > maxTokens /\ st.buf # <<>>
             THEN LET carried == FS_overlapText(st.buf, overlapTokens) \o block
                  IN  [chunks |-> Append(st.chunks, FS_createChunk(st.buf, st.num, t)),
                       buf |-> carried, tok |-> countTokens(carried), num |-> st.num + 1]
             ELSE [st EXCEPT !.buf = st.buf \o block, !.tok = st.tok + blockTokens]

RECURSIVE FS_loop(_, _, _, _, _)
FS_loop(st, htmlBlocks, maxTokens, overlapTokens, t) ==
    IF htmlBlocks = <<>> THEN st
    ELSE FS_loop(FS_step(st, Head(htmlBlocks), maxTokens, overlapTokens, t),
                 Tail(htmlBlocks), maxTokens, overlapTokens, t)

\* FixedSizeStrategy.chunk
FixedSize(s, o, t) ==
    LET opts == mergeOptions(FixedSizeDefaults, o)
        htmlBlocks == [i \in 1..Len(s.blocks) |-> s.blocks[i].html]
        st == FS_loop([chunks |-> <<>>, buf |-> <<>>, tok |-> 0, num |-> 1],
                      htmlBlocks, opts.maxTokens, opts.overlapTokens, t)
    IN  IF st.buf # <<>>
        THEN Append(st.chunks, FS_createChunk(st.buf, st.num, t))
        ELSE st.chunks

(***************************************************************************)
(* Heading-Aware strategy.                                                 *)
(***************************************************************************)
NoBlock == [type |-> "none"]

\* HeadingAwareStrategy.createChunk
HA_createChunk(content, number, sectionPath, section, t) ==
    LET firstBlock == IF section.heading # NoBlock THEN section.heading
                      ELSE section.blocks[1]
    IN  [id |-> <<number, t>>, number |-> number, content |-> content,
         tokens |-> countTokens(content), strategy |-> "heading-aware",
         sectionPath |-> sectionPath, page |-> firstBlock.page]

\* the pop loop with a strict comparison: a heading of the same level stays
RECURSIVE HA_popStackStrict(_, _)
HA_popStackStrict(headingStack, level) ==
    IF headingStack # <<>> /\ Last(headingStack).block.level > level
    THEN HA_popStackStrict(SubSeq(headingStack, 1, Len(headingStack) - 1), level)
    ELSE headingStack

\* the while loop that pops headings at the same or a deeper level
RECURSIVE HA_popStack(_, _)
HA_popStack(headingStack, level) ==
    IF headingStack # <<>> /\ Last(headingStack).block.level >= level
    THEN HA_popStack(SubSeq(headingStack, 1, Len(headingStack) - 1), level)
    ELSE headingStack

\* one iteration of the block loop of buildSections
\* (bs: sections, headingStack, open, cur; open = currentSection is not null)
HA_sectionStep(bs, block) ==
    IF IsHeading(block)
    THEN LET level == block.level
             popped == HA_popStack(bs.headingStack, level)
             sectionPath == [i \in 1..Len(popped) |-> popped[i].block.text] \o <<block.text>>
         IN  [sections |-> IF bs.open /\ Len(bs.cur.blocks) > 0
                           THEN Append(bs.sections, bs.cur) ELSE bs.sections,
              headingStack |-> Append(popped, [block |-> block, sectionPath |-> sectionPath]),
              open |-> TRUE,
              cur |-> [heading |-> block, blocks |-> <<>>, level |-> level,
                       sectionPath |-> sectionPath]]
    ELSE LET cur == IF bs.open THEN bs.cur
                    ELSE [heading |-> NoBlock, blocks |-> <<>>, level |-> 0,
                          sectionPath |-> <<>>]
         IN  [bs EXCEPT !.open = TRUE, !.cur = [cur EXCEPT !.blocks = Append(cur.blocks, block)]]

RECURSIVE HA_sectionLoop(_, _)
HA_sectionLoop(bs, blocks) ==
    IF blocks = <<>> THEN bs
    ELSE HA_sectionLoop(HA_sectionStep(bs, Head(blocks)), Tail(blocks))

\* HeadingAwareStrategy.buildSections
buildSections(blocks) ==
    LET bs == HA_sectionLoop([sections |-> <<>>, headingStack |-> <<>>, open |-> FALSE,
                              cur |-> [heading |-> NoBlock, blocks |-> <<>>, level |-> 0,
                                       sectionPath |-> <<>>]], blocks)
    IN  IF bs.open /\ Len(bs.cur.blocks) > 0 THEN Append(bs.sections, bs.cur)
        ELSE bs.sections

\* blocks.map(b => b.html).join("\n")
buildContentFromBlocks(blocks) == Flatten([i \in 1..Len(blocks) |-> blocks[i].html])

\* HeadingAwareStrategy.buildSectionContent
buildSectionContent(section) ==
    (IF section.heading # NoBlock THEN section.heading.html ELSE <<>>)
    \o buildContentFromBlocks(section.blocks)

\* the backward loop shared by getOverlapBlocks / getOverlapSentences /
\* getOverlapWords: sizes[i] is the token count of item i; the result is the
\* index of the first item of the overlap tail
RECURSIVE overlapFrom(_, _, _, _)
overlapFrom(sizes, i, count, overlapTokens) ==
    IF i >= 1 /\ count + sizes[i] <= overlapTokens
    THEN overlapFrom(sizes, i - 1, count + sizes[i], overlapTokens)
    ELSE i + 1

\* the tail of items that fits overlapTokens, empty when none fits
overlapTailOrNone(items, sizes, overlapTokens) ==
    SubSeq(items, overlapFrom(sizes, Len(items), 0, overlapTokens), Len(items))

\* the tail of items that fits overlapTokens, or the last item when none fits
overlapTail(items, sizes, overlapTokens) ==
    LET from == overlapFrom(sizes, Len(items), 0, overlapTokens)
    IN  IF from <= Len(items) THEN SubSeq(items, from, Len(items))
        ELSE <<Last(items)>>

\* getOverlapBlocks (Heading-Aware and Paragraph-Aware)
getOverlapBlocks(blocks, overlapTokens) ==
    overlapTail(blocks, [i \in 1..Len(blocks) |-> countTokens(blocks[i].html)], overlapTokens)

\* getOverlapSentences over strings
getOverlapSentences(sentences, overlapTokens) ==
    overlapTail(sentences, [i \in 1..Len(sentences) |-> countTokens(sentences[i])],
                overlapTokens)

\* the block loop of chunkSectionByParagraphs (st: chunks, cur, tok, num)
RECURSIVE HA_packBlocks(_, _, _, _, _, _)
HA_packBlocks(st, blocks, section, maxTokens, overlapTokens, t) ==
    IF blocks = <<>> THEN st
    ELSE LET block == Head(blocks)
             blockTokens == countTokens(block.html)
             nxt ==
               IF st.tok + blockTokens > maxTokens /\ Len(st.cur) > 0
               THEN LET made == HA_createChunk(buildContentFromBlocks(st.cur), st.num,
                                               section.sectionPath, section, t)
                        seeded == IF overlapTokens > 0
                                  THEN getOverlapBlocks(st.cur, overlapTokens) \o <<block>>
                                  ELSE <<block>>
                    IN  [chunks |-> Append(st.chunks, made), cur |-> seeded,
                         tok |-> IF overlapTokens > 0
                                 THEN countTokens(buildContentFromBlocks(seeded))
                                 ELSE blockTokens,
                         num |-> st.num + 1]
               ELSE [st EXCEPT !.cur = Append(st.cur, block), !.tok = st.tok + blockTokens]
         IN  HA_packBlocks(nxt, Tail(blocks), section, maxTokens, overlapTokens, t)

\* HeadingAwareStrategy.chunkSectionByParagraphs
chunkSectionByParagraphs(section, maxTokens, overlapTokens, startChunkNumber, t) ==
    LET start == IF section.heading # NoBlock
                 THEN [chunks |-> <<>>, cur |-> <<section.heading>>,
                       tok |-> countTokens(section.heading.html), num |-> startChunkNumber]
                 ELSE [chunks |-> <<>>, cur |-> <<>>, tok |-> 0, num |-> startChunkNumber]
        st == HA_packBlocks(start, section.blocks, section, maxTokens, overlapTokens, t)
    IN  IF Len(st.cur) > 0
        THEN Append(st.chunks, HA_createChunk(buildContentFromBlocks(st.cur), st.num,
                                              section.sectionPath, section, t))
        ELSE st.chunks

\* the sentence stream of a section: per block, text.match(...) || [text]
HA_sentences(section) ==
    Flatten([i \in 1..Len(section.blocks) |-> sentencesOf(section.blocks[i].text)])

\* the sentence loop of chunkSectionBySentences (st.cur: array of markup strings)
RECURSIVE HA_packSentences(_, _, _, _, _, _)
HA_packSentences(st, sentences, section, maxTokens, overlapTokens, t) ==
    IF sentences = <<>> THEN st
    ELSE LET text == Head(sentences)
             html == wrap(<<"p", 0>>, text)
             sentenceTokens == countTokens(text)
             nxt ==
               IF st.tok + sentenceTokens > maxTokens /\ Len(st.cur) > 0
               THEN LET made == HA_createChunk(Flatten(st.cur), st.num,
                                               section.sectionPath, section, t)
                        seeded == IF overlapTokens > 0
                                  THEN getOverlapSentences(st.cur, overlapTokens) \o <<html>>
                                  ELSE <<html>>
                    IN  [chunks |-> Append(st.chunks, made), cur |-> seeded,
                         tok |-> IF overlapTokens > 0 THEN countTokens(Flatten(seeded))
                                 ELSE sentenceTokens,
                         num |-> st.num + 1]
               ELSE [st EXCEPT !.cur = Append(st.cur, html), !.tok = st.tok + sentenceTokens]
         IN  HA_packSentences(nxt, Tail(sentences), section, maxTokens, overlapTokens, t)

\* HeadingAwareStrategy.chunkSectionBySentences
chunkSectionBySentences(section, maxTokens, overlapTokens, startChunkNumber, t) ==
    LET start == IF section.heading # NoBlock
                 THEN [chunks |-> <<>>, cur |-> <<section.heading.html>>,
                       tok |-> countTokens(section.heading.html), num |-> startChunkNumber]
                 ELSE [chunks |-> <<>>, cur |-> <<>>, tok |-> 0, num |-> startChunkNumber]
        st == HA_packSentences(start, HA_sentences(section), section, maxTokens,
                               overlapTokens, t)
    IN  IF Len(st.cur) > 0
        THEN Append(st.chunks, HA_createChunk(Flatten(st.cur), st.num,
                                              section.sectionPath, section, t))
        ELSE st.chunks

\* HeadingAwareStrategy.chunkSection
chunkSection(section, maxTokens, overlapTokens, subChunkingStrategy, startChunkNumber, t) ==
    LET sectionText == Flatten([i \in 1..Len(section.blocks) |-> section.blocks[i].text])
        sectionTokens == countTokens(sectionText)
    IN  IF sectionTokens <= maxTokens
        THEN <<HA_createChunk(buildSectionContent(section), startChunkNumber,
                              section.sectionPath, section, t)>>
        ELSE IF subChunkingStrategy = "sentence"
             THEN chunkSectionBySentences(section, maxTokens, overlapTokens,
                                          startChunkNumber, t)
             ELSE chunkSectionByParagraphs(section, maxTokens, overlapTokens,
                                           startChunkNumber, t)

\* the block loop of fallbackToParagraphChunking (st: chunks, cur, tok, num)
RECURSIVE HA_fallbackLoop(_, _, _, _)
HA_fallbackLoop(st, blocks, maxTokens, t) ==
    IF blocks = <<>> THEN st
    ELSE LET block == Head(blocks)
             blockTokens == countTokens(block.html)
             nxt ==
               IF IsHeading(block) THEN st
               ELSE IF st.tok + blockTokens > maxTokens /\ Len(st.cur) > 0
               THEN [chunks |-> Append(st.chunks,
                                   HA_createChunk(buildContentFromBlocks(st.cur), st.num, <<>>,
                                       [heading |-> NoBlock, blocks |-> st.cur, level |-> 0,
                                        sectionPath |-> <<>>], t)),
                     cur |-> <<block>>, tok |-> blockTokens, num |-> st.num + 1]
               ELSE [st EXCEPT !.cur = Append(st.cur, block), !.tok = st.tok + blockTokens]
         IN  HA_fallbackLoop(nxt, Tail(blocks), maxTokens, t)

\* the fallback delegating to the Fixed-Size algorithm
fallbackToFixedSize(s, opts, t) == FixedSize(s, opts, t)

\* HeadingAwareStrategy.fallbackToParagraphChunking
fallbackToParagraphChunking(s, opts, t) ==
    LET st == HA_fallbackLoop([chunks |-> <<>>, cur |-> <<>>, tok |-> 0, num |-> 1],
                              s.blocks, opts.maxTokens, t)
    IN  IF Len(st.cur) > 0
        THEN Append(st.chunks,
                    HA_createChunk(buildContentFromBlocks(st.cur), st.num, <<>>,
                        [heading |-> NoBlock, blocks |-> st.cur, level |-> 0,
                         sectionPath |-> <<>>], t))
        ELSE st.chunks

\* the section loop of HeadingAwareStrategy.chunk
RECURSIVE HA_chunkSections(_, _, _, _, _)
HA_chunkSections(acc, sections, opts, chunkNumber, t) ==
    IF sections = <<>> THEN acc
    ELSE LET sectionChunks == chunkSection(Head(sections), opts.maxTokens, opts.overlapTokens,
                                           opts.subChunkingStrategy, chunkNumber, t)
         IN  HA_chunkSections(acc \o sectionChunks, Tail(sections), opts,
                              chunkNumber + Len(sectionChunks), t)

\* HeadingAwareStrategy.chunk
HeadingAware(s, o, t) ==
    LET opts == mergeOptions(HeadingAwareDefaults, o)
        sections == buildSections(s.blocks)
    IN  IF \A i \in 1..Len(sections) : sections[i].heading = NoBlock
        THEN fallbackToParagraphChunking(s, opts, t)
        ELSE HA_chunkSections(<<>>, sections, opts, 1, t)

(***************************************************************************)
(* Paragraph-Aware strategy.                                               *)
(***************************************************************************)
\* ParagraphAwareStrategy.createChunkFromContent
PA_createChunkFromContent(content, number, firstBlock, t) ==
    [id |-> <<number, t>>, number |-> number, content |-> content,
     tokens |-> countTokens(content), strategy |-> "paragraph-aware",
     page |-> firstBlock.page]

\* ParagraphAwareStrategy.createChunk
PA_createChunk(blocks, number, t) ==
    PA_createChunkFromContent(buildContentFromBlocks(blocks), number, blocks[1], t)

\* currentSentences.map(s => `<p>${s.trim()}</p>`).join("\n")
PA_sentenceContent(sentences) ==
    Flatten([i \in 1..Len(sentences) |-> wrap(<<"p", 0>>, sentences[i])])

\* the sentence loop of splitOversizedBlock (st.cur: array of sentence strings)
RECURSIVE PA_packSentences(_, _, _, _, _, _)
PA_packSentences(st, sentences, block, maxTokens, overlapTokens, t) ==
    IF sentences = <<>> THEN st
    ELSE LET sentence == Head(sentences)
             sentenceTokens == countTokens(sentence)
             nxt ==
               IF st.tok + sentenceTokens > maxTokens /\ Len(st.cur) > 0
               THEN LET made == PA_createChunkFromContent(PA_sentenceContent(st.cur),
                                                          st.num, block, t)
                        seeded == IF overlapTokens > 0
                                  THEN getOverlapSentences(st.cur, overlapTokens)
                                       \o <<sentence>>
                                  ELSE <<sentence>>
                    IN  [chunks |-> Append(st.chunks, made), cur |-> seeded,
                         tok |-> IF overlapTokens > 0 THEN countTokens(Flatten(seeded))
                                 ELSE sentenceTokens,
                         num |-> st.num + 1]
               ELSE [st EXCEPT !.cur = Append(st.cur, sentence),
                               !.tok = st.tok + sentenceTokens]
         IN  PA_packSentences(nxt, Tail(sentences), block, maxTokens, overlapTokens, t)

\* getOverlapWords with the tail taken in the order the loop visits the words
\* (push in place of unshift)
getOverlapWordsPushed(words, overlapTokens) ==
    LET tail == overlapTail(words, [i \in 1..Len(words) |-> countTokens(<<words[i]>>)],
                            overlapTokens)
    IN  [i \in 1..Len(tail) |-> tail[Len(tail) + 1 - i]]

\* getOverlapWords: words is an array of units, each sized as countTokens(word + " ")
getOverlapWords(words, overlapTokens) ==
    overlapTail(words, [i \in 1..Len(words) |-> countTokens(<<words[i]>>)], overlapTokens)

\* the word loop of splitByTokens (st.cur: array of words)
RECURSIVE PA_packWords(_, _, _, _, _, _)
PA_packWords(st, words, block, maxTokens, overlapTokens, t) ==
    IF words = <<>> THEN st
    ELSE LET word == Head(words)
             wordTokens == countTokens(<<word>>)
             nxt ==
               IF st.tok + wordTokens > maxTokens /\ Len(st.cur) > 0
               THEN LET made == PA_createChunkFromContent(wrap(<<"p", 0>>, st.cur),
                                                          st.num, block, t)
                        seeded == IF overlapTokens > 0
                                  THEN getOverlapWords(st.cur, overlapTokens) \o <<word>>
                                  ELSE <<word>>
                    IN  [chunks |-> Append(st.chunks, made), cur |-> seeded,
                         tok |-> IF overlapTokens > 0 THEN countTokens(seeded)
                                 ELSE wordTokens,
                         num |-> st.num + 1]
               ELSE [st EXCEPT !.cur = Append(st.cur, word), !.tok = st.tok + wordTokens]
         IN  PA_packWords(nxt, Tail(words), block, maxTokens, overlapTokens, t)

\* ParagraphAwareStrategy.splitByTokens
splitByTokens(block, maxTokens, overlapTokens, startChunkNumber, t) ==
    LET st == PA_packWords([chunks |-> <<>>, cur |-> <<>>, tok |-> 0,
                            num |-> startChunkNumber],
                           block.text, block, maxTokens, overlapTokens, t)
    IN  IF Len(st.cur) > 0
        THEN Append(st.chunks,
                    PA_createChunkFromContent(wrap(<<"p", 0>>, st.cur), st.num, block, t))
        ELSE st.chunks

\* ParagraphAwareStrategy.splitOversizedBlock
splitOversizedBlock(block, maxTokens, overlapTokens, startChunkNumber, t) ==
    LET sentences == sentencesOf(block.text)
    IN  IF Len(sentences) > 1
        THEN LET st == PA_packSentences([chunks |-> <<>>, cur |-> <<>>, tok |-> 0,
                                         num |-> startChunkNumber],
                                        sentences, block, maxTokens, overlapTokens, t)
             IN  IF Len(st.cur) > 0
                 THEN Append(st.chunks,
                             PA_createChunkFromContent(PA_sentenceContent(st.cur),
                                                       st.num, block, t))
                 ELSE st.chunks
        ELSE splitByTokens(block, maxTokens, overlapTokens, startChunkNumber, t)

\* one iteration of the block loop of ParagraphAwareStrategy.chunk
PA_step(st, block, opts, t) ==
    LET blockTokens == countTokens(block.html)
    IN  IF blockTokens > opts.maxTokens
        THEN LET flushed == IF Len(st.cur) > 0
                            THEN [chunks |-> Append(st.chunks, PA_createChunk(st.cur, st.num, t)),
                                  cur |-> <<>>, tok |-> 0, num |-> st.num + 1]
                            ELSE st
                 subChunks == splitOversizedBlock(block, opts.maxTokens, opts.overlapTokens,
                                                  flushed.num, t)
             IN  [flushed EXCEPT !.chunks = flushed.chunks \o subChunks,
                                 !.num = flushed.num + Len(subChunks)]
        ELSE LET wouldExceedTokens == st.tok + blockTokens > opts.maxTokens
                 wouldExceedParagraphs == Len(st.cur) >= opts.maxParagraphsPerChunk
             IN  IF (wouldExceedTokens \/ wouldExceedParagraphs)
                    /\ Len(st.cur) >= opts.minParagraphsPerChunk
                 THEN LET withOverlap == opts.overlapTokens > 0 /\ Len(st.cur) > 0
                          seeded == IF withOverlap
                                    THEN getOverlapBlocks(st.cur, opts.overlapTokens)
                                         \o <<block>>
                                    ELSE <<block>>
                      IN  [chunks |-> Append(st.chunks, PA_createChunk(st.cur, st.num, t)),
                           cur |-> seeded,
                           tok |-> IF withOverlap
                                   THEN countTokens(buildContentFromBlocks(seeded))
                                   ELSE blockTokens,
                           num |-> st.num + 1]
                 ELSE [st EXCEPT !.cur = Append(st.cur, block), !.tok = st.tok + blockTokens]

RECURSIVE PA_loop(_, _, _, _)
PA_loop(st, blocks, opts, t) ==
    IF blocks = <<>> THEN st
    ELSE PA_loop(PA_step(st, Head(blocks), opts, t), Tail(blocks), opts, t)

\* the filter to paragraph-level blocks
PA_paragraphBlocks(s) ==
    SelectSeq(s.blocks, LAMBDA b : b.type \in {"paragraph", "listItem", "other"})

\* ParagraphAwareStrategy.chunk
ParagraphAware(s, o, t) ==
    LET opts == mergeOptions(ParagraphAwareDefaults, o)
        st == PA_loop([chunks |-> <<>>, cur |-> <<>>, tok |-> 0, num |-> 1],
                      PA_paragraphBlocks(s), opts, t)
    IN  IF Len(st.cur) > 0 THEN Append(st.chunks, PA_createChunk(st.cur, st.num, t))
        ELSE st.chunks

(***************************************************************************)
(* Sliding-Window strategy.                                                *)
(***************************************************************************)
\* SlidingWindowStrategy.buildTextStream: the non-blank block texts, joined
\* by blank lines (kept here as the sequence of paragraphs)
buildTextStream(s) ==
    SelectSeq([i \in 1..Len(s.blocks) |-> s.blocks[i].text], LAMBDA x : x # <<>>)

\* SlidingWindowStrategy.buildHTMLFromText: one <p> per blank-line separated paragraph
buildHTMLFromText(paragraphs) ==
    Flatten([i \in 1..Len(paragraphs) |-> wrap(<<"p", 0>>, paragraphs[i])])

\* SlidingWindowStrategy.tokenizeText: the /\S+/g matches of the stream
tokenizeText(paragraphs) == Flatten(paragraphs)

\* SlidingWindowStrategy.detokenize: tokens.join(" "), a text without blank lines
detokenize(tokens) == IF tokens = <<>> THEN <<>> ELSE <<tokens>>

EndsSentence(u) == Last(u).k = "w" /\ Last(u).dot

\* SlidingWindowStrategy.findSentenceBoundary (0-based offsets; tokens[i + 1] is unit i)
findSentenceBoundary(tokens, position, start) ==
    LET back == {i \in start..(position - 1) : EndsSentence(tokens[i + 1])}
        forth == {i \in position..(Len(tokens) - 1) : EndsSentence(tokens[i + 1])}
    IN  IF back # {} THEN (CHOOSE i \in back : \A j \in back : j <= i) + 1
        ELSE IF forth # {} THEN (CHOOSE i \in forth : \A j \in forth : i <= j) + 1
        ELSE position

\* SlidingWindowStrategy.findWordBoundary
findWordBoundary(tokens, position, start) == position

\* SlidingWindowStrategy.createChunk
SW_createChunk(content, number, windowIndex, t) ==
    [id |-> <<number, t>>, number |-> number, content |-> content,
     tokens |-> countTokens(content), strategy |-> "sliding-window",
     windowIndex |-> windowIndex]

\* the end offset of the window that starts at position
SW_windowEnd(tokens, position, opts) ==
    LET windowEnd == Min(position + opts.windowSize, Len(tokens))
    IN  IF opts.preserveSentenceBoundaries /\ windowEnd < Len(tokens)
        THEN findSentenceBoundary(tokens, windowEnd, position)
        ELSE IF opts.preserveWordBoundaries /\ windowEnd < Len(tokens)
        THEN findWordBoundary(tokens, windowEnd, position)
        ELSE windowEnd

\* the advance without the progress check
SW_nextPositionUnchecked(position, stepSize) == position + stepSize

\* "Move to next window" and "Ensure we make progress": the next position after
\* the chunk recorded at lastWindowIndex = position
SW_nextPosition(position, stepSize) ==
    IF position + stepSize <= position THEN position + 1 ELSE position + stepSize

\* an iteration whose next window starts overlapSize units before the snapped end
SW_iterateFromEnd(st, tokens, opts, t) ==
    LET windowEnd == SW_windowEnd(tokens, st.position, opts)
        windowTokens == SubSeq(tokens, st.position + 1, windowEnd)
        windowHTML == buildHTMLFromText(detokenize(windowTokens))
    IN  [chunks |-> Append(st.chunks, SW_createChunk(windowHTML, st.num, st.position, t)),
         position |-> Max(windowEnd - opts.overlapSize, st.position + 1),
         num |-> st.num + 1]

\* one iteration of the while loop (st: chunks, position, num)
SW_iterate(st, tokens, opts, t) ==
    LET windowEnd == SW_windowEnd(tokens, st.position, opts)
        windowTokens == SubSeq(tokens, st.position + 1, windowEnd)
        windowHTML == buildHTMLFromText(detokenize(windowTokens))
    IN  [chunks |-> Append(st.chunks, SW_createChunk(windowHTML, st.num, st.position, t)),
         position |-> SW_nextPosition(st.position, opts.windowSize - opts.overlapSize),
         num |-> st.num + 1]

RECURSIVE SW_loop(_, _, _, _)
SW_loop(st, tokens, opts, t) ==
    IF st.position < Len(tokens) THEN SW_loop(SW_iterate(st, tokens, opts, t), tokens, opts, t)
    ELSE st.chunks

\* a one-window test on the number of units of the stream
SW_fitsByUnits(s, opts) ==
    Len(tokenizeText(buildTextStream(s))) <= opts.windowSize

\* the early returns of SlidingWindowStrategy.chunk: empty stream, one window
SW_fitsOneWindow(s, opts) ==
    countTokens(Flatten(buildTextStream(s))) <= opts.windowSize

\* SlidingWindowStrategy.chunk
SlidingWindow(s, o, t) ==
    LET opts == mergeOptions(SlidingWindowDefaults, o)
        textStream == buildTextStream(s)
    IN  IF textStream = <<>> THEN <<>>
        ELSE IF SW_fitsOneWindow(s, opts)
        THEN <<SW_createChunk(buildHTMLFromText(textStream), 1, 0, t)>>
        ELSE SW_loop([chunks |-> <<>>, position |-> 0, num |-> 1],
                     tokenizeText(textStream), opts, t)

(***************************************************************************)
(* validateOptions of the four strategies.                                 *)
(***************************************************************************)
Has(o, key) == key \in DOMAIN o

\* JavaScript truthiness of a numeric option: present and not 0
Truthy(o, key) == Has(o, key) /\ o[key] # 0

FS_validateOptions(o) ==
    /\ ~(Has(o, "maxTokens") /\ (o.maxTokens < 1 \/ o.maxTokens > 10000))
    /\ ~(Has(o, "overlapTokens") /\ (o.overlapTokens < 0 \/ o.overlapTokens > 1000))
    /\ ~(Truthy(o, "maxTokens") /\ Truthy(o, "overlapTokens")
         /\ o.overlapTokens >= o.maxTokens)

HA_validateOptions(o) ==
    /\ ~(Has(o, "maxTokens") /\ (o.maxTokens < 1 \/ o.maxTokens > 10000))
    /\ ~(Has(o, "overlapTokens") /\ (o.overlapTokens < 0 \/ o.overlapTokens > 1000))
    /\ ~(Has(o, "subChunkingStrategy")
         /\ o.subChunkingStrategy \notin {"paragraph", "sentence"})

PA_validateOptions(o) ==
    /\ ~(Has(o, "maxTokens") /\ (o.maxTokens < 1 \/ o.maxTokens > 10000))
    /\ ~(Has(o, "overlapTokens") /\ (o.overlapTokens < 0 \/ o.overlapTokens > 1000))
    /\ ~(Has(o, "minParagraphsPerChunk") /\ o.minParagraphsPerChunk < 1)
    /\ ~(Has(o, "maxParagraphsPerChunk") /\ o.maxParagraphsPerChunk < 1)
    /\ ~(Truthy(o, "minParagraphsPerChunk") /\ Truthy(o, "maxParagraphsPerChunk")
         /\ o.minParagraphsPerChunk > o.maxParagraphsPerChunk)

SW_validateOptions(o) ==
    /\ ~(Has(o, "windowSize") /\ (o.windowSize < 1 \/ o.windowSize > 10000))
    /\ ~(Has(o, "overlapSize") /\ (o.overlapSize < 0 \/ o.overlapSize > 5000))
    /\ ~(Truthy(o, "windowSize") /\ Truthy(o, "overlapSize")
         /\ o.overlapSize >= o.windowSize)

\* strategy.validateOptions of the strategy registered under id
validateOptions(id, o) ==
    CASE id = "fixed-size" -> FS_validateOptions(o)
      [] id = "heading-aware" -> HA_validateOptions(o)
      [] id = "paragraph-aware" -> PA_validateOptions(o)
      [] id = "sliding-window" -> SW_validateOptions(o)

\* strategy.chunk of the strategy registered under id
runStrategy(id, s, o, t) ==
    CASE id = "fixed-size" -> FixedSize(s, o, t)
      [] id = "heading-aware" -> HeadingAware(s, o, t)
      [] id = "paragraph-aware" -> ParagraphAware(s, o, t)
      [] id = "sliding-window" -> SlidingWindow(s, o, t)

(***************************************************************************)
(* Inputs: Document Structures and option records.                         *)
(***************************************************************************)
\* a block shape: type, level and, per word, <<ends a sentence, tokens>>
Shape(type, level, ws) == [type |-> type, level |-> level, words |-> ws]

ParagraphShapes ==
    { Shape("paragraph", 0, << <<TRUE, 1>> >>),
      Shape("paragraph", 0, << <<FALSE, 1>>, <<FALSE, 1>> >>),
      Shape("paragraph", 0, << <<TRUE, 1>>, <<TRUE, 1>>, <<FALSE, 1>> >>) }

ShapeSet ==
    ParagraphShapes
    \cup { Shape("heading", 1, << <<FALSE, 1>> >>),
           Shape("heading", 2, << <<FALSE, 1>> >>),
           Shape("table", 0, << <<FALSE, 2>> >>) }

\* shapes of outline documents: three heading levels and a short paragraph
OutlineShapes ==
    { Shape("heading", 1, << <<FALSE, 1>> >>),
      Shape("heading", 2, << <<FALSE, 1>> >>),
      Shape("heading", 3, << <<FALSE, 1>> >>),
      Shape("paragraph", 0, << <<TRUE, 1>> >>) }

\* the block of a shape; its words are numbered from base so that every word
\* of a document is distinct
blockOfShape(sh, base) ==
    Block(sh.type, sh.level,
          [j \in 1..Len(sh.words) |-> <<Word(base + j, sh.words[j][1], sh.words[j][2])>>],
          1)

DocOf(shapes) ==
    [blocks |-> [i \in 1..Len(shapes) |-> blockOfShape(shapes[i], 10 * i)],
     sourceFile |-> "doc", sourceType |-> "docx"]

SeqsUpTo(S, n) == UNION {[1..m -> S] : m \in 0..n}

Documents ==
    {DocOf(q) : q \in SeqsUpTo(ShapeSet, MaxBlocks)}
    \cup {DocOf(q) : q \in SeqsUpTo(OutlineShapes, MaxOutline)}

FixedSizeOptions ==
    [maxTokens : {4, 6}, overlapTokens : {0, 2, 4}]

HeadingAwareOptions ==
    [maxTokens : {4, 6}, overlapTokens : {0, 3}]
    \cup [maxTokens : {4, 6}, overlapTokens : {0, 3}, subChunkingStrategy : {"sentence"}]

ParagraphAwareOptions ==
    [maxTokens : {4, 6}, overlapTokens : {0, 3}]
    \cup [maxTokens : {4, 6}, overlapTokens : {0, 3},
          minParagraphsPerChunk : {1, 2}, maxParagraphsPerChunk : {2}]

SlidingWindowOptions ==
    [windowSize : {2, 3}, overlapSize : {0, 1, 3}, preserveSentenceBoundaries : BOOLEAN]

(***************************************************************************)
(* The engine: one strategy call on one Document Structure.                *)
(***************************************************************************)
BuiltInStrategies == {"fixed-size", "heading-aware", "paragraph-aware", "sliding-window"}

\* null ids (selectedFileId, selectedChunkId) and absent values
Null == <<>>

\* no request has ended yet
NoOutcome ==
    [kind |-> "none", result |-> "none", strategyId |-> "none", options |-> <<>>,
     ran |-> FALSE]

\* a strategy object: its id and the implementation behind it
Strategy(id, impl) == [id |-> id, impl |-> impl]

\* the registerStrategy calls of the chunking module's index, in order
BuiltInRegistrations ==
    <<Strategy("fixed-size", "fixed-size"), Strategy("heading-aware", "heading-aware"),
      Strategy("paragraph-aware", "paragraph-aware"),
      Strategy("sliding-window", "sliding-window")>>

\* the page after its first render: the registry holds the four strategies the
\* chunking module registers on import, every useState holds its initial value
PageInit ==
    /\ strategies = [id \in BuiltInStrategies |-> id]
    /\ registered = BuiltInRegistrations
    /\ dom = <<>>
    /\ instanceDefaults = PublishedDefaults
    /\ files = <<>>
    /\ chunksData = <<>>
    /\ selectedFileId = Null
    /\ selectedChunkId = Null
    /\ fileChunkingConfig = <<>>
    /\ chunkSize = 1000
    /\ overlapSize = 150
    /\ pending = {}
    /\ issued = 0
    /\ outcome = NoOutcome

Init ==
    /\ structure \in Documents
    /\ options = <<>>
    /\ strategyId = "none"
    /\ chunks = <<>>
    /\ now = 0
    /\ swPos = 0
    /\ swIter = 0
    /\ phase = "ready"
    /\ PageInit

\* strategy.chunk(structure, options, globalMetadata) of the Fixed-Size strategy
ChunkFixedSize ==
    /\ phase = "ready"
    /\ \E o \in FixedSizeOptions :
          /\ options' = o
          /\ chunks' = FixedSize(structure, o, now)
    /\ strategyId' = "fixed-size"
    /\ phase' = "done"
    /\ UNCHANGED <<structure, now, swPos, swIter>>
    /\ UNCHANGED pageVars

ChunkHeadingAware ==
    /\ phase = "ready"
    /\ \E o \in HeadingAwareOptions :
          /\ options' = o
          /\ chunks' = HeadingAware(structure, o, now)
    /\ strategyId' = "heading-aware"
    /\ phase' = "done"
    /\ UNCHANGED <<structure, now, swPos, swIter>>
    /\ UNCHANGED pageVars

ChunkParagraphAware ==
    /\ phase = "ready"
    /\ \E o \in ParagraphAwareOptions :
          /\ options' = o
          /\ chunks' = ParagraphAware(structure, o, now)
    /\ strategyId' = "paragraph-aware"
    /\ phase' = "done"
    /\ UNCHANGED <<structure, now, swPos, swIter>>
    /\ UNCHANGED pageVars

\* the unit stream the window slides over
SW_tokens == tokenizeText(buildTextStream(structure))

SW_opts == mergeOptions(SlidingWindowDefaults, options)

\* SlidingWindowStrategy.chunk up to the while loop
SlidingWindowBegin ==
    /\ phase = "ready"
    /\ \E o \in SlidingWindowOptions :
          /\ options' = o
          /\ IF buildTextStream(structure) = <<>>
                \/ SW_fitsOneWindow(structure, mergeOptions(SlidingWindowDefaults, o))
             THEN /\ chunks' = SlidingWindow(structure, o, now)
                  /\ phase' = "done"
             ELSE /\ chunks' = <<>>
                  /\ phase' = "window"
    /\ strategyId' = "sliding-window"
    /\ swPos' = 0
    /\ swIter' = 0
    /\ UNCHANGED <<structure, now>>
    /\ UNCHANGED pageVars

\* one iteration of the while loop of SlidingWindowStrategy.chunk
SlidingWindowIterate ==
    /\ phase = "window"
    /\ swPos < Len(SW_tokens)
    /\ swIter <= Len(SW_tokens)
    /\ LET st == SW_iterate([chunks |-> chunks, position |-> swPos, num |-> Len(chunks) + 1],
                            SW_tokens, SW_opts, now)
       IN  /\ chunks' = st.chunks
           /\ swPos' = st.position
    /\ swIter' = swIter + 1
    /\ UNCHANGED <<structure, options, strategyId, now, phase>>
    /\ UNCHANGED pageVars

\* the loop condition fails: return chunks
SlidingWindowReturn ==
    /\ phase = "window"
    /\ swPos >= Len(SW_tokens)
    /\ phase' = "done"
    /\ UNCHANGED <<structure, options, strategyId, chunks, now, swPos, swIter>>
    /\ UNCHANGED pageVars

Next ==
    \/ ChunkFixedSize
    \/ ChunkHeadingAware
    \/ ChunkParagraphAware
    \/ SlidingWindowBegin
    \/ SlidingWindowIterate
    \/ SlidingWindowReturn

Spec == Init /\ [][Next]_vars

(***************************************************************************)
(* Properties of the engine.                                               *)
(***************************************************************************)
ChunkIdx == 1..Len(chunks)

BlockStrategies == {"fixed-size", "heading-aware", "paragraph-aware"}

\* the words of the source blocks in source order
SourceWords == Flatten([i \in 1..Len(structure.blocks) |-> plainWords(structure.blocks[i].html)])

\* the words of all chunks, concatenated in array order
ChunkWords == Flatten([i \in ChunkIdx |-> plainWords(chunks[i].content)])

\* a sequence without its repeated elements (first occurrences kept)
RECURSIVE Dedup(_)
Dedup(ws) ==
    IF ws = <<>> THEN <<>>
    ELSE LET front == Dedup(SubSeq(ws, 1, Len(ws) - 1))
         IN  IF \E i \in 1..Len(front) : front[i] = Last(ws) THEN front
             ELSE Append(front, Last(ws))

\* the atoms of a string in order
Atoms(s) == Flatten(s)

\* every closing tag closes the innermost open tag and no tag stays open
RECURSIVE TagsBalanced(_, _)
TagsBalanced(atoms, open) ==
    IF atoms = <<>> THEN open = <<>>
    ELSE LET a == Head(atoms)
         IN  CASE a.k = "w" -> TagsBalanced(Tail(atoms), open)
               [] a.k = "o" -> TagsBalanced(Tail(atoms), Append(open, a.tag))
               [] a.k = "c" -> /\ open # <<>>
                               /\ Last(open) = a.tag
                               /\ TagsBalanced(Tail(atoms), SubSeq(open, 1, Len(open) - 1))

TagCount(s) == Len(SelectSeq(Atoms(s), LAMBDA a : ~IsWord(a)))

\* C1: every chunk's token count equals the Token Counter applied to the
\* plain text of its content (the content with all markup tags removed).
C1_TokenCountOfPlainText ==
    \A i \in ChunkIdx : chunks[i].tokens = countTokens(stripTags(chunks[i].content))

\* C2: for Fixed-Size, Heading-Aware and Paragraph-Aware the plain text of the
\* chunks in array order is the plain text of the source blocks in source
\* order: every source word present, nothing reordered, and the only
\* additions are repetitions (the seeded overlap).
C2_OrderPreserved ==
    (phase = "done" /\ strategyId \in BlockStrategies)
        => Dedup(ChunkWords) = SourceWords

\* C3: for Fixed-Size, Heading-Aware and Paragraph-Aware no chunk contains a
\* fragment of a block's markup: every tag in a chunk has its partner in the
\* same chunk.
C3_NoPartialTagPair ==
    (phase = "done" /\ strategyId \in BlockStrategies)
        => \A i \in ChunkIdx : TagsBalanced(Atoms(chunks[i].content), <<>>)

\* a chunk that is one unsplittable unit: a single word, or one element whose
\* text holds at most one sentence
SingleUnit(c) ==
    \/ Len(plainWords(c.content)) = 1
    \/ TagCount(c.content) <= 2 /\ Len(sentencesOf(stripTags(c.content))) = 1

ValidOptions == validateOptions(strategyId, options)

\* C4: with valid options every chunk of Fixed-Size, Heading-Aware and
\* Paragraph-Aware has at most maxTokens tokens unless it consists solely of
\* one unsplittable unit.  The chunk is measured on its plain text, the
\* smaller of the two counts, so a chunk that breaks this bound breaks it
\* under either reading of "token count".
C4_WithinMaxTokens ==
    (phase = "done" /\ strategyId \in BlockStrategies /\ ValidOptions)
        => \A i \in ChunkIdx :
              \/ countTokens(stripTags(chunks[i].content)) <= options.maxTokens
              \/ SingleUnit(chunks[i])

\* C5: Sliding-Window with 0 <= overlapSize < windowSize over a stream longer
\* than one window: every unit of the stream is in some chunk and the last
\* chunk ends at the stream's last unit.
C5_WindowsCoverStream ==
    (phase = "done" /\ strategyId = "sliding-window" /\ ValidOptions
     /\ ~SW_fitsOneWindow(structure, SW_opts))
        => /\ {ChunkWords[j] : j \in 1..Len(ChunkWords)}
                = {SourceWords[j] : j \in 1..Len(SourceWords)}
           /\ chunks # <<>>
           /\ plainWords(Last(chunks).content) # <<>>
           /\ Last(plainWords(Last(chunks).content)) = Last(SourceWords)

\* C6: in Sliding-Window, for any windowSize and overlapSize, each chunk's
\* recorded start offset is strictly greater than the previous chunk's, the
\* next window starts past the last recorded one, and the loop runs at most
\* once per unit of the stream.
C6_WindowStartAdvances ==
    strategyId = "sliding-window"
        => /\ \A i \in ChunkIdx : \A j \in ChunkIdx :
                 i < j => chunks[i].windowIndex < chunks[j].windowIndex
           /\ (phase = "window" /\ chunks # <<>>) => swPos > Last(chunks).windowIndex
           /\ swIter <= Len(SW_tokens)

\* C6 witness: a finished call whose nominal step is zero or negative and
\* that still produced several windows
C6_Witness ==
    /\ phase = "done" /\ strategyId = "sliding-window"
    /\ options.overlapSize >= options.windowSize
    /\ Len(chunks) >= 3
    /\ swIter = Len(chunks)

Contents(cs) == [i \in 1..Len(cs) |-> cs[i].content]

NoHeadings == \A i \in 1..Len(structure.blocks) : ~IsHeading(structure.blocks[i])

BlockHtmls == [i \in 1..Len(structure.blocks) |-> structure.blocks[i].html]

\* C7 as stated: without any heading, Heading-Aware returns the chunks of
\* Fixed-Size on the same structure and options (same number, same contents).
C7_SameAsFixedSize ==
    (phase = "done" /\ strategyId = "heading-aware" /\ NoHeadings)
        => Contents(chunks) = Contents(FixedSize(structure, options, now))

\* C7 amended: without any heading, Heading-Aware packs whole blocks with no
\* overlap and no splitting (every block's markup exactly once, in order,
\* each chunk a run of whole blocks), and it returns the contents of
\* Fixed-Size whenever all blocks together fit in maxTokens.
C7_FallbackPacksWholeBlocks ==
    (phase = "done" /\ strategyId = "heading-aware" /\ NoHeadings)
        => /\ Flatten(Contents(chunks)) = Flatten(BlockHtmls)
           /\ \A i \in ChunkIdx :
                 \E a \in 1..Len(BlockHtmls) : \E b \in a..Len(BlockHtmls) :
                    chunks[i].content = Flatten(SubSeq(BlockHtmls, a, b))
           /\ countTokens(Flatten(BlockHtmls)) <= options.maxTokens
                 => Contents(chunks) = Contents(FixedSize(structure, options, now))

\* C7 witness: a heading-less document that Heading-Aware cut into several
\* chunks, where Fixed-Size would have seeded overlap
C7_Witness ==
    /\ phase = "done" /\ strategyId = "heading-aware" /\ NoHeadings
    /\ Len(chunks) >= 2
    /\ Contents(chunks) # Contents(FixedSize(structure, options, now))

\* the index of the heading that opens the section of block i (0: root section)
SectionOf(i) ==
    LET hs == {j \in 1..i : IsHeading(structure.blocks[j])}
    IN  IF hs = {} THEN 0 ELSE CHOOSE j \in hs : \A m \in hs : m <= j

\* the nearest earlier heading of a lower level (0: none)
ParentOf(h) ==
    LET ps == {j \in 1..(h - 1) : /\ IsHeading(structure.blocks[j])
                                  /\ structure.blocks[j].level < structure.blocks[h].level}
    IN  IF ps = {} THEN 0 ELSE CHOOSE j \in ps : \A m \in ps : m <= j

RECURSIVE AncestorPath(_)
AncestorPath(h) ==
    IF h = 0 THEN <<>> ELSE Append(AncestorPath(ParentOf(h)), structure.blocks[h].text)

\* the source block a word comes from
BlockOfWord(w) == w.id \div 10

\* the level of the heading whose text is x
LevelOfText(x) ==
    LET i == CHOOSE j \in 1..Len(structure.blocks) : structure.blocks[j].text = x
    IN  structure.blocks[i].level

\* C8: every Heading-Aware chunk carries as section path the texts of the
\* ancestors of the heading that opens its section (each the nearest earlier
\* heading of a lower level) followed by that heading's text, so the levels
\* along the path strictly increase.
C8_SectionPathIsAncestry ==
    (phase = "done" /\ strategyId = "heading-aware")
        => \A i \in ChunkIdx :
              LET ws == plainWords(chunks[i].content)
                  path == chunks[i].sectionPath
              IN  /\ \A j \in 1..Len(ws) :
                        path = AncestorPath(SectionOf(BlockOfWord(ws[j])))
                  /\ \A a \in 1..Len(path) : \A b \in 1..Len(path) :
                        a < b => LevelOfText(path[a]) < LevelOfText(path[b])

\* C8 witness: headings A (1) > B (2) > C (3) and a chunk under C that holds
\* a paragraph and carries the three-element path
C8_Witness ==
    /\ phase = "done" /\ strategyId = "heading-aware"
    /\ \E i \in ChunkIdx :
          /\ Len(chunks[i].sectionPath) = 3
          /\ \E j \in 1..Len(structure.blocks) :
                /\ structure.blocks[j].type = "paragraph"
                /\ \E m \in 1..Len(plainWords(chunks[i].content)) :
                      BlockOfWord(plainWords(chunks[i].content)[m]) = j

(***************************************************************************)
(* The Block Normalizer, on the markup the parsers and the chunks carry.   *)
(***************************************************************************)
NoElement == [tag |-> <<"none", 0>>, text |-> <<>>]

\* the block processElement pushes for one element, if its text is not blank
blockOfElement(el, sourceType) ==
    LET name == el.tag[1]
        type == CASE name = "h" -> IF sourceType = "pptx" THEN "slideTitle" ELSE "heading"
                  [] name = "p" -> "paragraph"
                  [] name = "li" -> "listItem"
                  [] name = "table" -> "table"
                  [] name = "pre" -> "code"
                  [] OTHER -> "other"
    IN  IF el = NoElement \/ el.text = <<>> THEN <<>>
        ELSE <<Block(type, el.tag[2], el.text, 0)>>

\* DOMParser and the walk over body.children: text outside every element is a
\* text node of body and is never visited; an opening tag closes the element
\* that is open; a closing tag closes the element of its own name and is
\* dropped otherwise; the end of input closes what is open
RECURSIVE scanElements(_, _, _, _)
scanElements(atoms, el, blocks, sourceType) ==
    IF atoms = <<>> THEN blocks \o blockOfElement(el, sourceType)
    ELSE LET a == Head(atoms)
         IN  IF IsWord(a)
             THEN scanElements(Tail(atoms),
                               IF el = NoElement THEN el
                               ELSE [el EXCEPT !.text = Append(el.text, <<a>>)],
                               blocks, sourceType)
             ELSE IF a.k = "o"
             THEN scanElements(Tail(atoms), [tag |-> a.tag, text |-> <<>>],
                               blocks \o blockOfElement(el, sourceType), sourceType)
             ELSE IF el # NoElement /\ el.tag = a.tag
             THEN scanElements(Tail(atoms), NoElement,
                               blocks \o blockOfElement(el, sourceType), sourceType)
             ELSE scanElements(Tail(atoms), el, blocks, sourceType)

htmlToDocumentBlocks(html, sourceType, sourceFile) ==
    [blocks |-> scanElements(Flatten(html), NoElement, <<>>, sourceType),
     sourceFile |-> sourceFile, sourceType |-> sourceType]

(***************************************************************************)
(* The registry.                                                           *)
(***************************************************************************)
Undefined == "undefined"

\* a lookup that answers an unregistered id with the default strategy
getStrategyOrDefault(id) ==
    IF id \in DOMAIN strategies THEN strategies[id] ELSE strategies["fixed-size"]

\* getStrategy: strategies.get(id)
getStrategy(id) ==
    IF id \in DOMAIN strategies THEN strategies[id] ELSE Undefined

defaultOptions(id) ==
    CASE id = "fixed-size" -> FixedSizeDefaults
      [] id = "heading-aware" -> HeadingAwareDefaults
      [] id = "paragraph-aware" -> ParagraphAwareDefaults
      [] id = "sliding-window" -> SlidingWindowDefaults

(***************************************************************************)
(* The page: handlers that request chunking.  An async handler is split    *)
(* at its await: the part before it puts the handler's closure (the state  *)
(* of the render it was created in) into pending, the part after it runs   *)
(* when the request is taken out again.                                    *)
(***************************************************************************)
MaxRequests == 3

MaxNow == 1

MaxPending == 2

\* { ...map, [key]: value }
withEntry(map, key, value) ==
    [x \in (DOMAIN map) \cup {key} |-> IF x = key THEN value ELSE map[x]]

\* the markup a document parser returns for a file
htmlOf(shapes) == Flatten([i \in 1..Len(shapes) |-> DocOf(shapes).blocks[i].html])

LoadableHtml ==
    { htmlOf(<<Shape("heading", 1, << <<FALSE, 1>> >>),
               Shape("paragraph", 0, << <<TRUE, 1>>, <<TRUE, 1>>, <<FALSE, 1>> >>)>>),
      htmlOf(<<Shape("paragraph", 0, << <<FALSE, 1>>, <<FALSE, 1>> >>),
               Shape("paragraph", 0, << <<TRUE, 1>> >>)>>) }

\* what the settings dialog (or any caller) may hand to handleStrategyChange
StrategyRequests ==
    { [strategy |-> "fixed-size", options |-> [maxTokens |-> 4, overlapTokens |-> 0]],
      [strategy |-> "paragraph-aware",
       options |-> [maxTokens |-> 4, overlapTokens |-> 0,
                    minParagraphsPerChunk |-> 2, maxParagraphsPerChunk |-> 1]],
      [strategy |-> "sliding-window", options |-> [windowSize |-> 2, overlapSize |-> 3]],
      [strategy |-> "semantic", options |-> [maxTokens |-> 4, overlapTokens |-> 0]] }

ChunkSizes == {4}

OverlapSizes == {4}

fileIdAt(t) == <<"file", t>>

\* the closure of a handler: the state of the render it was created in
closure(kind, fileId, sid, opts, html, parses) ==
    [kind |-> kind, fileId |-> fileId, strategyId |-> sid, options |-> opts,
     html |-> html, parses |-> parses,
     files |-> files, chunksData |-> chunksData,
     fileChunkingConfig |-> fileChunkingConfig,
     chunkSize |-> chunkSize, overlapSize |-> overlapSize]

firstChunkId(cs) == IF cs = <<>> THEN Null ELSE cs[1].id

\* rechunkWithStrategy up to its await
rechunkWithStrategy(fileId, sid, opts) ==
    IF fileId \notin DOMAIN chunksData THEN pending
    ELSE pending \cup {closure("rechunk", fileId, sid, opts, <<>>, TRUE)}

\* fileChunkingConfig[id] || { strategy: "fixed-size", options: {...} }
configOr(config, id, size, overlap) ==
    IF id \in DOMAIN config THEN config[id]
    ELSE [strategy |-> "fixed-size",
          options |-> [maxTokens |-> size, overlapTokens |-> overlap]]

PageIdle ==
    /\ phase = "ready"
    /\ Cardinality(pending) < MaxPending
    /\ issued < MaxRequests

\* Date.now() moves on
Tick ==
    /\ now < MaxNow
    /\ now' = now + 1
    /\ UNCHANGED <<structure, options, strategyId, chunks, swPos, swIter, phase>>
    /\ UNCHANGED pageVars

\* handleFileLoad up to the await of the parser
HandleFileLoad ==
    /\ PageIdle
    /\ \E html \in LoadableHtml : \E parses \in BOOLEAN :
          pending' = pending \cup {closure("load", Null, "none", <<>>, html, parses)}
    /\ issued' = issued + 1
    /\ UNCHANGED engineVars
    /\ UNCHANGED <<strategies, registered, dom, instanceDefaults, files, chunksData, selectedFileId, selectedChunkId,
                   fileChunkingConfig, chunkSize, overlapSize, outcome>>

\* handleFileLoad from the parser's answer to its end
FileLoadResume ==
    \E p \in pending :
       /\ p.kind = "load"
       /\ pending' = pending \ {p}
       /\ LET st == htmlToDocumentBlocks(p.html, "docx", "doc")
              fileId == fileIdAt(now)
              fileConfig == configOr(p.fileChunkingConfig, fileId, p.chunkSize, p.overlapSize)
              strategy == getStrategy(fileConfig.strategy)
              made == runStrategy(strategy, st, fileConfig.options, now)
              newFile == [id |-> fileId, name |-> "doc", type |-> "docx"]
          IN  IF ~p.parses
              THEN /\ outcome' = [kind |-> "load", result |-> "failed",
                                  strategyId |-> "none", options |-> <<>>, ran |-> FALSE]
                   /\ UNCHANGED <<structure, options, strategyId, chunks, files, chunksData,
                                  fileChunkingConfig, selectedFileId, selectedChunkId>>
              ELSE IF strategy = Undefined
              THEN /\ outcome' = [kind |-> "load", result |-> "failed",
                                  strategyId |-> fileConfig.strategy,
                                  options |-> fileConfig.options, ran |-> FALSE]
                   /\ UNCHANGED <<structure, options, strategyId, chunks, files, chunksData,
                                  fileChunkingConfig, selectedFileId, selectedChunkId>>
              ELSE /\ structure' = st
                   /\ options' = fileConfig.options
                   /\ strategyId' = strategy
                   /\ chunks' = made
                   /\ files' = Append(files, newFile)
                   /\ chunksData' = withEntry(chunksData, fileId, made)
                   /\ fileChunkingConfig' = withEntry(fileChunkingConfig, fileId, fileConfig)
                   /\ selectedFileId' = fileId
                   /\ selectedChunkId' = firstChunkId(made)
                   /\ outcome' = [kind |-> "load", result |-> "stored",
                                  strategyId |-> fileConfig.strategy,
                                  options |-> fileConfig.options, ran |-> TRUE]
       /\ UNCHANGED <<now, swPos, swIter, phase, strategies, registered, dom, instanceDefaults, chunkSize, overlapSize, issued>>

HandleSelectFile ==
    /\ \E i \in 1..Len(files) :
          LET fileId == files[i].id
              fileChunks == IF fileId \in DOMAIN chunksData THEN chunksData[fileId] ELSE <<>>
          IN  /\ selectedFileId' = fileId
              /\ selectedChunkId' = firstChunkId(fileChunks)
    /\ UNCHANGED engineVars
    /\ UNCHANGED <<strategies, registered, dom, instanceDefaults, files, chunksData, fileChunkingConfig, chunkSize,
                   overlapSize, pending, issued, outcome>>

\* handleChunkSizeChange, up to the await inside rechunkWithStrategy
HandleChunkSizeChange ==
    /\ PageIdle
    /\ \E newSize \in ChunkSizes :
          /\ chunkSize' = newSize
          /\ IF selectedFileId # Null /\ selectedFileId \in DOMAIN chunksData
             THEN LET fileConfig == configOr(fileChunkingConfig, selectedFileId,
                                             chunkSize, overlapSize)
                      updatedOptions == withEntry(fileConfig.options, "maxTokens", newSize)
                  IN  /\ fileChunkingConfig' =
                            withEntry(fileChunkingConfig, selectedFileId,
                                      [fileConfig EXCEPT !.options = updatedOptions])
                      /\ pending' = rechunkWithStrategy(selectedFileId, fileConfig.strategy,
                                                        updatedOptions)
             ELSE UNCHANGED <<fileChunkingConfig, pending>>
    /\ issued' = issued + 1
    /\ UNCHANGED engineVars
    /\ UNCHANGED <<strategies, registered, dom, instanceDefaults, files, chunksData, selectedFileId, selectedChunkId,
                   overlapSize, outcome>>

\* handleOverlapSizeChange, up to the await inside rechunkWithStrategy
HandleOverlapSizeChange ==
    /\ PageIdle
    /\ \E newSize \in OverlapSizes :
          /\ overlapSize' = newSize
          /\ IF selectedFileId # Null /\ selectedFileId \in DOMAIN chunksData
             THEN LET fileConfig == configOr(fileChunkingConfig, selectedFileId,
                                             chunkSize, overlapSize)
                      updatedOptions == withEntry(fileConfig.options, "overlapTokens", newSize)
                  IN  /\ fileChunkingConfig' =
                            withEntry(fileChunkingConfig, selectedFileId,
                                      [fileConfig EXCEPT !.options = updatedOptions])
                      /\ pending' = rechunkWithStrategy(selectedFileId, fileConfig.strategy,
                                                        updatedOptions)
             ELSE UNCHANGED <<fileChunkingConfig, pending>>
    /\ issued' = issued + 1
    /\ UNCHANGED engineVars
    /\ UNCHANGED <<strategies, registered, dom, instanceDefaults, files, chunksData, selectedFileId, selectedChunkId,
                   chunkSize, outcome>>

\* the legacy settings after handleStrategyChange: a later truthy option wins
legacySize(current, o, first, second) ==
    IF Truthy(o, second) THEN o[second]
    ELSE IF Truthy(o, first) THEN o[first]
    ELSE current

\* handleStrategyChange, up to the await inside rechunkWithStrategy
HandleStrategyChange ==
    /\ PageIdle
    /\ selectedFileId # Null
    /\ \E r \in StrategyRequests :
          /\ fileChunkingConfig' = withEntry(fileChunkingConfig, selectedFileId, r)
          /\ chunkSize' = legacySize(chunkSize, r.options, "maxTokens", "windowSize")
          /\ overlapSize' = legacySize(overlapSize, r.options, "overlapTokens", "overlapSize")
          /\ pending' = rechunkWithStrategy(selectedFileId, r.strategy, r.options)
    /\ issued' = issued + 1
    /\ UNCHANGED engineVars
    /\ UNCHANGED <<strategies, registered, dom, instanceDefaults, files, chunksData, selectedFileId, selectedChunkId, outcome>>

\* find() found nothing
NoFile == [id |-> Null, name |-> "none", type |-> "none"]

\* files.find(f => f.id === fileId)
findFile(fs, fileId) ==
    LET hits == {i \in 1..Len(fs) : fs[i].id = fileId}
    IN  IF hits = {} THEN NoFile ELSE fs[CHOOSE i \in hits : \A j \in hits : i <= j]

\* chunksData[fileId].map(c => c.content).join("\n")
fullContentOf(cs) == Flatten([i \in 1..Len(cs) |-> cs[i].content])

\* the Document Structure rechunkWithStrategy rebuilds from the chunks it holds
reconstructed(p) ==
    htmlToDocumentBlocks(fullContentOf(p.chunksData[p.fileId]),
                         findFile(p.files, p.fileId).type,
                         findFile(p.files, p.fileId).name)

\* rechunkWithStrategy from its await to its end
RechunkResume ==
    \E p \in pending :
       /\ p.kind = "rechunk"
       /\ pending' = pending \ {p}
       /\ IF findFile(p.files, p.fileId) = NoFile
          THEN /\ outcome' = [kind |-> "rechunk", result |-> "returned",
                              strategyId |-> p.strategyId, options |-> p.options,
                              ran |-> FALSE]
               /\ UNCHANGED <<structure, options, strategyId, chunks, chunksData,
                              selectedChunkId>>
          ELSE IF getStrategy(p.strategyId) = Undefined
          THEN /\ outcome' = [kind |-> "rechunk", result |-> "failed",
                              strategyId |-> p.strategyId, options |-> p.options,
                              ran |-> FALSE]
               /\ UNCHANGED <<structure, options, strategyId, chunks, chunksData,
                              selectedChunkId>>
          ELSE /\ structure' = reconstructed(p)
               /\ options' = p.options
               /\ strategyId' = getStrategy(p.strategyId)
               /\ chunks' = runStrategy(strategyId', structure', options', now)
               /\ chunksData' = withEntry(p.chunksData, p.fileId, chunks')
               /\ selectedChunkId' = firstChunkId(chunks')
               /\ outcome' = [kind |-> "rechunk", result |-> "stored",
                              strategyId |-> p.strategyId, options |-> p.options,
                              ran |-> TRUE]
       /\ UNCHANGED <<now, swPos, swIter, phase, strategies, registered, dom, instanceDefaults, files, selectedFileId,
                      fileChunkingConfig, chunkSize, overlapSize, issued>>

PageStart ==
    /\ structure = DocOf(<<>>)
    /\ options = <<>>
    /\ strategyId = "none"
    /\ chunks = <<>>
    /\ now = 0
    /\ swPos = 0
    /\ swIter = 0
    /\ phase = "ready"
    /\ PageInit

PageNext ==
    \/ Tick
    \/ HandleFileLoad
    \/ FileLoadResume
    \/ HandleSelectFile
    \/ HandleChunkSizeChange
    \/ HandleOverlapSizeChange
    \/ HandleStrategyChange
    \/ RechunkResume

PageSpec == PageStart /\ [][PageNext]_vars

(***************************************************************************)
(* Properties of the page's chunking requests.                             *)
(***************************************************************************)
\* the strategy id and the options a suspended request runs with when it is
\* resumed at time t
requestConfig(p, t) ==
    IF p.kind = "rechunk" THEN [strategy |-> p.strategyId, options |-> p.options]
    ELSE configOr(p.fileChunkingConfig, fileIdAt(t), p.chunkSize, p.overlapSize)

\* the resumed request gets as far as the registry lookup
ReachesLookup(p) ==
    IF p.kind = "rechunk" THEN findFile(p.files, p.fileId) # NoFile ELSE p.parses

\* the strategy is registered and its validateOptions rejects the merged options
Rejected(p, t) ==
    LET c == requestConfig(p, t)
    IN  /\ c.strategy \in DOMAIN strategies
        /\ ~validateOptions(strategies[c.strategy],
                            mergeOptions(defaultOptions(strategies[c.strategy]), c.options))

\* C9: a chunking request (file load or re-chunk) whose merged options the
\* selected strategy's validateOptions rejects ends in an explicit failure:
\* the strategy is not run and no chunk list is stored.
C9_InvalidOptionsFail ==
    [][\A p \in pending :
          (p \notin pending' /\ ReachesLookup(p) /\ Rejected(p, now))
              => /\ outcome'.result = "failed"
                 /\ ~outcome'.ran
                 /\ chunksData' = chunksData]_vars

\* C10: a chunking request (file load or re-chunk) that reaches the registry
\* lookup with a strategy id the registry does not hold ends in an explicit
\* failure: no strategy is run, the file list, the chunk map and the selection
\* stay as they were, the request is gone and no new request is made.
C10_UnknownStrategyFails ==
    [][\A p \in pending :
          (p \notin pending' /\ ReachesLookup(p)
           /\ requestConfig(p, now).strategy \notin DOMAIN strategies)
              => /\ outcome'.result = "failed"
                 /\ ~outcome'.ran
                 /\ outcome'.strategyId = requestConfig(p, now).strategy
                 /\ UNCHANGED <<structure, options, strategyId, chunks>>
                 /\ UNCHANGED <<files, chunksData, selectedFileId, selectedChunkId>>
                 /\ pending' = pending \ {p}
                 /\ issued' = issued]_vars

\* a file load has failed on a strategy id that is not registered, after an
\* earlier load of a file had succeeded
C10_Witness ==
    /\ outcome.kind = "load"
    /\ outcome.result = "failed"
    /\ outcome.strategyId = "semantic"
    /\ outcome.strategyId \notin DOMAIN strategies
    /\ files # <<>>
    /\ pending = {}

(***************************************************************************)
(* Chunk identity: ids across time and across calls.                       *)
(***************************************************************************)
\* C11: the chunk list a strategy call returned is the list the same strategy
\* returns on the same Document Structure and options at any other time,
\* field for field, ids included.
C11_SameAtAnyTime ==
    phase = "done" =>
        \A t \in 0..MaxNow : runStrategy(strategyId, structure, options, t) = chunks

(***************************************************************************)
(* Paragraph-Aware and Heading-Aware on paragraphs that need splitting.    *)
(***************************************************************************)
MaxParagraphs == 3

\* paragraphs: "a.", "a b", "aa bb c" and "a b c dd e" (no terminator), "aa. bb c" (one
\* terminator, inside), "a. b. c" (text after the last terminator) and
\* "aa. bb. cc." (three whole sentences)
SplitShapes ==
    { Shape("paragraph", 0, << <<TRUE, 1>> >>),
      Shape("paragraph", 0, << <<FALSE, 1>>, <<FALSE, 1>> >>),
      Shape("paragraph", 0, << <<FALSE, 2>>, <<FALSE, 2>>, <<FALSE, 1>> >>),
      Shape("paragraph", 0, << <<FALSE, 1>>, <<FALSE, 1>>, <<FALSE, 1>>, <<FALSE, 2>>,
                               <<FALSE, 1>> >>),
      Shape("paragraph", 0, << <<TRUE, 2>>, <<FALSE, 2>>, <<FALSE, 1>> >>),
      Shape("paragraph", 0, << <<TRUE, 1>>, <<TRUE, 1>>, <<FALSE, 1>> >>),
      Shape("paragraph", 0, << <<TRUE, 2>>, <<TRUE, 2>>, <<TRUE, 2>> >>) }

ParagraphDocuments == {DocOf(q) : q \in SeqsUpTo(SplitShapes, MaxParagraphs)}

\* the same paragraphs as the one section of a level-1 heading
HeadedDocuments ==
    {DocOf(<<Shape("heading", 1, << <<FALSE, 1>> >>)>> \o q) :
        q \in SeqsUpTo(SplitShapes, MaxParagraphs)}

ParagraphSplitOptions ==
    [maxTokens : {4, 6}, overlapTokens : {0, 1, 3}]
    \cup [maxTokens : {4, 6}, overlapTokens : {0, 1, 3},
          minParagraphsPerChunk : {1}, maxParagraphsPerChunk : {1, 2}]
    \cup [maxTokens : {4, 6}, overlapTokens : {0, 1, 3},
          minParagraphsPerChunk : {2}, maxParagraphsPerChunk : {2}]

SectionSplitOptions ==
    [maxTokens : {4, 6}, overlapTokens : {0, 1, 3}]
    \cup [maxTokens : {4, 6}, overlapTokens : {0, 1, 3}, subChunkingStrategy : {"sentence"}]

ParagraphInit ==
    /\ structure \in ParagraphDocuments \cup HeadedDocuments
    /\ options = <<>>
    /\ strategyId = "none"
    /\ chunks = <<>>
    /\ now = 0
    /\ swPos = 0
    /\ swIter = 0
    /\ phase = "ready"
    /\ PageInit

\* strategy.chunk(structure, options, globalMetadata) of Paragraph-Aware
ChunkParagraphs ==
    /\ phase = "ready"
    /\ \E o \in ParagraphSplitOptions :
          /\ options' = o
          /\ chunks' = ParagraphAware(structure, o, now)
    /\ strategyId' = "paragraph-aware"
    /\ phase' = "done"
    /\ UNCHANGED <<structure, now, swPos, swIter>>
    /\ UNCHANGED pageVars

\* strategy.chunk(structure, options, globalMetadata) of Heading-Aware
ChunkSections ==
    /\ phase = "ready"
    /\ \E o \in SectionSplitOptions :
          /\ options' = o
          /\ chunks' = HeadingAware(structure, o, now)
    /\ strategyId' = "heading-aware"
    /\ phase' = "done"
    /\ UNCHANGED <<structure, now, swPos, swIter>>
    /\ UNCHANGED pageVars

ParagraphNext ==
    \/ ChunkParagraphs
    \/ ChunkSections

ParagraphSpec == ParagraphInit /\ [][ParagraphNext]_vars

\* the merged options of the Paragraph-Aware call of this state
PA_opts == mergeOptions(ParagraphAwareDefaults, options)

PA_done == phase = "done" /\ strategyId = "paragraph-aware"

\* the block is handed to splitOversizedBlock
Oversized(b) == countTokens(b.html) > PA_opts.maxTokens

\* no word of the text but the last one ends a sentence
NoInnerBoundary(text) == \A j \in 1..(Len(text) - 1) : ~EndsSentence(text[j])

\* the sub-chunks splitOversizedBlock makes of block b in this state
SubChunksOf(b) ==
    splitOversizedBlock(b, PA_opts.maxTokens, PA_opts.overlapTokens, 1, now)

\* the word ids of a text or a content, in order
WordIds(content) ==
    LET ws == plainWords(content) IN [j \in 1..Len(ws) |-> ws[j].id]

\* ids is a non-empty run of consecutive elements of all
IsRun(ids, all) ==
    /\ ids # <<>>
    /\ \E k \in 0..(Len(all) - Len(ids)) :
          \A j \in 1..Len(ids) : ids[j] = all[k + j]

\* C12: when Paragraph-Aware splits an oversized block without an inner
\* sentence boundary at word level, every sub-chunk, its seeded overlap
\* included, is a paragraph holding a run of whole words of the block in
\* their original order, and the sub-chunks are among the returned chunks.
C12_WordSplitKeepsWholeWords ==
    PA_done =>
        \A i \in 1..Len(structure.blocks) :
            LET b == structure.blocks[i]
            IN  (Oversized(b) /\ NoInnerBoundary(b.text)) =>
                    \A k \in 1..Len(SubChunksOf(b)) :
                        LET c == SubChunksOf(b)[k].content
                        IN  /\ IsRun(WordIds(c), WordIds(b.text))
                            /\ c = wrap(<<"p", 0>>, stripTags(c))
                            /\ \E n \in 1..Len(chunks) : chunks[n].content = c

\* a single paragraph without terminator was split at word level with overlap:
\* the second chunk starts with a word the first chunk ends with
C12_Witness ==
    /\ PA_done
    /\ Len(structure.blocks) = 1
    /\ Oversized(structure.blocks[1])
    /\ \A j \in 1..Len(structure.blocks[1].text) : ~EndsSentence(structure.blocks[1].text[j])
    /\ PA_opts.overlapTokens > 0
    /\ Len(chunks) >= 2
    /\ WordIds(chunks[2].content)[1] = Last(WordIds(chunks[1].content))

\* words j and k of the text are in the same sentence: no word from the
\* earlier one up to the word before the later one ends a sentence
SameSentence(text, j, k) ==
    \A m \in Min(j, k)..(Max(j, k) - 1) : ~EndsSentence(text[m])

\* the content holds some words of a sentence of block b and lacks others
CutsSentence(content, b) ==
    LET ids == {WordIds(content)[n] : n \in 1..Len(WordIds(content))}
        text == b.text
    IN  \E j, k \in 1..Len(text) :
            /\ SameSentence(text, j, k)
            /\ WordIds(text)[j] \in ids
            /\ WordIds(text)[k] \notin ids

\* C13: every chunk Paragraph-Aware returns consists of whole sentences of
\* the source blocks; a chunk holds part of a sentence only when the
\* sentence's block exceeds maxTokens and has no inner sentence boundary.
C13_WholeSentences ==
    PA_done =>
        \A n \in 1..Len(chunks) : \A i \in 1..Len(structure.blocks) :
            LET b == structure.blocks[i]
            IN  CutsSentence(chunks[n].content, b)
                    => (Oversized(b) /\ NoInnerBoundary(b.text))

\* the sequences of source blocks whose markup, joined, is the content
BlockRunsOf(content) ==
    {q \in SeqsUpTo(1..Len(structure.blocks), Len(structure.blocks)) :
        q # <<>> /\ buildContentFromBlocks([j \in 1..Len(q) |-> structure.blocks[q[j]]]) = content}

\* C14: with minParagraphsPerChunk <= maxParagraphsPerChunk, every chunk
\* Paragraph-Aware builds from whole blocks holds at most
\* maxParagraphsPerChunk blocks, the seeded overlap blocks included.
C14_AtMostMaxParagraphs ==
    (PA_done /\ PA_opts.minParagraphsPerChunk <= PA_opts.maxParagraphsPerChunk) =>
        \A n \in 1..Len(chunks) : \A q \in BlockRunsOf(chunks[n].content) :
            Len(q) <= PA_opts.maxParagraphsPerChunk

(***************************************************************************)
(* Heading-Aware sub-chunking and the overlap tails.                       *)
(***************************************************************************)
\* the merged options of the Heading-Aware call of this state
HA_opts == mergeOptions(HeadingAwareDefaults, options)

\* the chunks whose content holds the words of block i
ChunksHolding(i) ==
    {n \in 1..Len(chunks) :
        \E j \in 1..Len(WordIds(chunks[n].content)) :
            WordIds(chunks[n].content)[j] \in
                {WordIds(structure.blocks[i].text)[k] : k \in 1..Len(structure.blocks[i].text)}}

\* C15: with paragraph-mode sub-chunking, Heading-Aware puts the markup of a
\* section's heading into the first sub-chunk of the section only: no two
\* chunks hold the same heading, whatever overlapTokens is.
C15_HeadingOnlyInFirstSubChunk ==
    (phase = "done" /\ strategyId = "heading-aware"
     /\ HA_opts.subChunkingStrategy = "paragraph") =>
        \A i \in 1..Len(structure.blocks) :
            IsHeading(structure.blocks[i]) => Cardinality(ChunksHolding(i)) <= 1

(***************************************************************************)
(* Fixed-Size: the carried-over tail and the sentence split.               *)
(***************************************************************************)
\* the merged options of the Fixed-Size call of this state
FS_opts == mergeOptions(FixedSizeDefaults, options)

FS_htmlBlocks == [i \in 1..Len(structure.blocks) |-> structure.blocks[i].html]

\* the loop state of FixedSizeStrategy.chunk before block k is visited
FS_before(k) ==
    FS_loop([chunks |-> <<>>, buf |-> <<>>, tok |-> 0, num |-> 1],
            SubSeq(FS_htmlBlocks, 1, k - 1), FS_opts.maxTokens, FS_opts.overlapTokens, now)

\* block k fits maxTokens and the buffer is flushed because buffer plus block
\* would exceed it
FS_flushesAt(k) ==
    /\ countTokens(FS_htmlBlocks[k]) <= FS_opts.maxTokens
    /\ FS_before(k).tok + countTokens(FS_htmlBlocks[k]) > FS_opts.maxTokens
    /\ FS_before(k).buf # <<>>

\* what the buffer holds ahead of block k after the flush at block k
FS_carriedAt(k) ==
    LET buf == FS_step(FS_before(k), FS_htmlBlocks[k], FS_opts.maxTokens,
                       FS_opts.overlapTokens, now).buf
    IN  SubSeq(buf, 1, Len(buf) - Len(FS_htmlBlocks[k]))

\* C16: whenever Fixed-Size flushes the buffer because buffer plus block
\* would exceed maxTokens, what is carried into the new buffer ahead of the
\* block is a tail of at most floor(overlapTokens / 2) whitespace-delimited
\* words of the flushed content: nothing when overlapTokens is 0 or 1.
C16_CarriesHalfOverlapWords ==
    (phase = "done" /\ strategyId = "fixed-size") =>
        \A k \in 1..Len(FS_htmlBlocks) :
            FS_flushesAt(k) =>
                LET carried == FS_carriedAt(k)
                    flushed == FS_before(k).buf
                IN  /\ Len(carried) <= FS_opts.overlapTokens \div 2
                    /\ carried = SubSeq(flushed, Len(flushed) - Len(carried) + 1, Len(flushed))

\* block k exceeds maxTokens and is split at sentence-ending punctuation
FS_splitsAt(k) ==
    /\ countTokens(FS_htmlBlocks[k]) > FS_opts.maxTokens
    /\ Len(sentencesOf(stripTags(FS_htmlBlocks[k]))) > 1

\* the sentence fragments of block k that the sentence loop places into
\* chunks and into the buffer it leaves, in order
FS_fragmentsAt(k) ==
    LET st == FS_step(FS_before(k), FS_htmlBlocks[k], FS_opts.maxTokens,
                      FS_opts.overlapTokens, now)
        made == SubSeq(st.chunks, Len(st.chunks) - (st.num - FS_before(k).num
                                                    - (IF FS_before(k).buf # <<>> THEN 1 ELSE 0)) + 1,
                       Len(st.chunks))
    IN  Flatten(Contents(made)) \o st.buf

\* C17: when Fixed-Size splits a block exceeding maxTokens at sentence-ending
\* punctuation, the fragments it places into chunks hold all of the block's
\* plain text in its original order, the text after the last terminator
\* included.
C17_SentenceSplitKeepsAllText ==
    (phase = "done" /\ strategyId = "fixed-size") =>
        \A k \in 1..Len(FS_htmlBlocks) :
            FS_splitsAt(k) =>
                WordIds(FS_fragmentsAt(k)) = WordIds(FS_htmlBlocks[k])

(***************************************************************************)
(* The overlap tails seeded at every place a chunk is closed.              *)
(***************************************************************************)
\* the state of a packing loop before its first item
PackStart == [chunks |-> <<>>, cur |-> <<>>, tok |-> 0, num |-> 1]

\* a seeding: the units of the closed chunk, their token counts, and the
\* seeded list without the unit that opened the new chunk
Seeding(closed, sizes, seeded) ==
    [closed |-> closed, sizes |-> sizes, tail |-> SubSeq(seeded, 1, Len(seeded) - 1)]

\* the seedings of the block loop of ParagraphAwareStrategy.chunk
PA_blockSeeds ==
    LET pb == PA_paragraphBlocks(structure)
        before(k) == PA_loop(PackStart, SubSeq(pb, 1, k - 1), PA_opts, now)
        after(k) == PA_step(before(k), pb[k], PA_opts, now)
    IN  {Seeding(before(k).cur,
                 [i \in 1..Len(before(k).cur) |-> countTokens(before(k).cur[i].html)],
                 after(k).cur) :
            k \in {n \in 1..Len(pb) : /\ ~Oversized(pb[n])
                                      /\ Len(after(n).chunks) > Len(before(n).chunks)
                                      /\ Len(before(n).cur) > 0}}

\* the seedings of the sentence loop of splitOversizedBlock on block b
PA_sentenceSeedsOf(b) ==
    LET ss == sentencesOf(b.text)
        before(k) == PA_packSentences(PackStart, SubSeq(ss, 1, k - 1), b,
                                      PA_opts.maxTokens, PA_opts.overlapTokens, now)
        after(k) == PA_packSentences(before(k), <<ss[k]>>, b, PA_opts.maxTokens,
                                     PA_opts.overlapTokens, now)
    IN  {Seeding(before(k).cur,
                 [j \in 1..Len(before(k).cur) |-> countTokens(before(k).cur[j])],
                 after(k).cur) :
            k \in {n \in 1..Len(ss) : Len(after(n).chunks) > Len(before(n).chunks)}}

PA_sentenceSeeds ==
    UNION {PA_sentenceSeedsOf(structure.blocks[i]) :
              i \in {n \in 1..Len(structure.blocks) :
                        /\ Oversized(structure.blocks[n])
                        /\ Len(sentencesOf(structure.blocks[n].text)) > 1}}

\* the seedings of the word loop of splitByTokens on block b
PA_wordSeedsOf(b) ==
    LET before(k) == PA_packWords(PackStart, SubSeq(b.text, 1, k - 1), b,
                                  PA_opts.maxTokens, PA_opts.overlapTokens, now)
        after(k) == PA_packWords(before(k), <<b.text[k]>>, b, PA_opts.maxTokens,
                                 PA_opts.overlapTokens, now)
    IN  {Seeding(before(k).cur,
                 [j \in 1..Len(before(k).cur) |-> countTokens(<<before(k).cur[j]>>)],
                 after(k).cur) :
            k \in {n \in 1..Len(b.text) : Len(after(n).chunks) > Len(before(n).chunks)}}

PA_wordSeeds ==
    UNION {PA_wordSeedsOf(structure.blocks[i]) :
              i \in {n \in 1..Len(structure.blocks) :
                        /\ Oversized(structure.blocks[n])
                        /\ Len(sentencesOf(structure.blocks[n].text)) <= 1}}

\* the sections of this state's structure that Heading-Aware sub-chunks
HA_splitSections ==
    LET sections == buildSections(structure.blocks)
    IN  {sections[i] : i \in {j \in 1..Len(sections) :
            countTokens(Flatten([n \in 1..Len(sections[j].blocks) |->
                                    sections[j].blocks[n].text])) > HA_opts.maxTokens}}

\* the seedings of the block loop of chunkSectionByParagraphs on a section
HA_blockSeedsOf(section) ==
    LET start == IF section.heading # NoBlock
                 THEN [PackStart EXCEPT !.cur = <<section.heading>>,
                                        !.tok = countTokens(section.heading.html)]
                 ELSE PackStart
        before(k) == HA_packBlocks(start, SubSeq(section.blocks, 1, k - 1), section,
                                   HA_opts.maxTokens, HA_opts.overlapTokens, now)
        after(k) == HA_packBlocks(before(k), <<section.blocks[k]>>, section,
                                  HA_opts.maxTokens, HA_opts.overlapTokens, now)
    IN  {Seeding(before(k).cur,
                 [j \in 1..Len(before(k).cur) |-> countTokens(before(k).cur[j].html)],
                 after(k).cur) :
            k \in {n \in 1..Len(section.blocks) :
                      Len(after(n).chunks) > Len(before(n).chunks)}}

\* the seedings of the sentence loop of chunkSectionBySentences on a section
HA_sentenceSeedsOf(section) ==
    LET start == IF section.heading # NoBlock
                 THEN [PackStart EXCEPT !.cur = <<section.heading.html>>,
                                        !.tok = countTokens(section.heading.html)]
                 ELSE PackStart
        ss == HA_sentences(section)
        before(k) == HA_packSentences(start, SubSeq(ss, 1, k - 1), section,
                                      HA_opts.maxTokens, HA_opts.overlapTokens, now)
        after(k) == HA_packSentences(before(k), <<ss[k]>>, section,
                                     HA_opts.maxTokens, HA_opts.overlapTokens, now)
    IN  {Seeding(before(k).cur,
                 [j \in 1..Len(before(k).cur) |-> countTokens(before(k).cur[j])],
                 after(k).cur) :
            k \in {n \in 1..Len(ss) : Len(after(n).chunks) > Len(before(n).chunks)}}

\* the seedings of the Heading-Aware call of this state
HA_seeds ==
    UNION {IF HA_opts.subChunkingStrategy = "sentence" THEN HA_sentenceSeedsOf(section)
           ELSE HA_blockSeedsOf(section) : section \in HA_splitSections}

\* the strategy call of this state seeds overlap
PA_seeding == PA_done /\ PA_opts.overlapTokens > 0

HA_seeding == phase = "done" /\ strategyId = "heading-aware" /\ HA_opts.overlapTokens > 0

\* the tail is a suffix of the closed chunk's units
IsTail(r) ==
    /\ Len(r.tail) <= Len(r.closed)
    /\ r.tail = SubSeq(r.closed, Len(r.closed) - Len(r.tail) + 1, Len(r.closed))

\* the token count of the tail
TailTokens(r) == SumSeq(SubSeq(r.sizes, Len(r.sizes) - Len(r.tail) + 1, Len(r.sizes)))

\* the tail is made of whole trailing units and fits the overlap budget
WithinBudget(r, overlapTokens) == IsTail(r) /\ TailTokens(r) <= overlapTokens

\* the tail is made of whole trailing units and fits the overlap budget, or
\* it is the last unit alone and that unit exceeds the budget
BudgetOrLast(r, overlapTokens) ==
    /\ IsTail(r)
    /\ r.tail # <<>>
    /\ \/ TailTokens(r) <= overlapTokens
       \/ Len(r.tail) = 1 /\ Last(r.sizes) > overlapTokens

MaxRegistrations == 4

\* the strategy objects a caller may register: built-in and custom ids, each
\* backed by one of two implementations
RegistrableStrategies ==
    {Strategy(id, impl) : id \in {"fixed-size", "sliding-window", "custom"},
                          impl \in {"fixed-size", "paragraph-aware"}}

\* the ids a caller may look up
LookupIds == {"fixed-size", "sliding-window", "custom", "semantic"}

\* a registration that keeps the strategy already held under the id
registerStrategyIfAbsent(map, strategy) ==
    IF strategy.id \in DOMAIN map THEN map ELSE withEntry(map, strategy.id, strategy.impl)

\* registerStrategy: strategies.set(strategy.id, strategy)
registerStrategy(map, strategy) == withEntry(map, strategy.id, strategy.impl)

\* getAllStrategies: Array.from(strategies.values()), the entries in the
\* order their keys were first set
getAllStrategies ==
    LET keys == Dedup([i \in 1..Len(registered) |-> registered[i].id])
        held == SelectSeq(keys, LAMBDA k : k \in DOMAIN strategies)
    IN  [i \in 1..Len(held) |-> Strategy(held[i], strategies[held[i]])]

\* hasStrategy: strategies.has(id)
hasStrategy(id) == id \in DOMAIN strategies

\* the module before any registration: const strategies = new Map()
RegistryInit ==
    /\ structure = DocOf(<<>>)
    /\ options = <<>>
    /\ strategyId = "none"
    /\ chunks = <<>>
    /\ now = 0
    /\ swPos = 0
    /\ swIter = 0
    /\ phase = "ready"
    /\ strategies = <<>>
    /\ registered = <<>>
    /\ dom = <<>>
    /\ instanceDefaults = PublishedDefaults
    /\ files = <<>>
    /\ chunksData = <<>>
    /\ selectedFileId = Null
    /\ selectedChunkId = Null
    /\ fileChunkingConfig = <<>>
    /\ chunkSize = 1000
    /\ overlapSize = 150
    /\ pending = {}
    /\ issued = 0
    /\ outcome = NoOutcome

\* a call of registerStrategy(strategy)
RegisterStrategy ==
    /\ Len(registered) < MaxRegistrations
    /\ \E strategy \in RegistrableStrategies :
          /\ strategies' = registerStrategy(strategies, strategy)
          /\ registered' = Append(registered, strategy)
    /\ UNCHANGED engineVars
    /\ UNCHANGED <<dom, instanceDefaults, files, chunksData, selectedFileId, selectedChunkId, fileChunkingConfig,
                   chunkSize, overlapSize, pending, issued, outcome>>

RegistrySpec == RegistryInit /\ [][RegisterStrategy]_vars

\* the positions of the registerStrategy calls made with this id
CallsWith(id) == {i \in 1..Len(registered) : registered[i].id = id}

\* the largest element of a non-empty set of numbers
Latest(S) == CHOOSE i \in S : \A j \in S : j <= i

\* C19: after any sequence of registerStrategy calls, getStrategy(id) is the
\* strategy most recently registered under id, and is absent for an id never
\* registered; getAllStrategies holds exactly one strategy for each
\* registered id and nothing else.
C19_RegistryHoldsLatest ==
    /\ \A id \in LookupIds :
          /\ CallsWith(id) = {} => (getStrategy(id) = Undefined /\ ~hasStrategy(id))
          /\ CallsWith(id) # {} =>
                (getStrategy(id) = registered[Latest(CallsWith(id))].impl /\ hasStrategy(id))
    /\ \A id \in {registered[i].id : i \in 1..Len(registered)} :
          Cardinality({n \in 1..Len(getAllStrategies) : getAllStrategies[n].id = id}) = 1
    /\ \A n \in 1..Len(getAllStrategies) : CallsWith(getAllStrategies[n].id) # {}

\* an id was registered twice with different implementations, another id
\* once, and a third never
C19_Witness ==
    /\ \E i, j \in CallsWith("custom") : i < j /\ registered[i].impl # registered[j].impl
    /\ Cardinality(CallsWith("fixed-size")) = 1
    /\ CallsWith("sliding-window") = {}
    /\ getStrategy("custom") = registered[Latest(CallsWith("custom"))].impl

(***************************************************************************)
(* Chunk ids across the strategy calls of one page.                        *)
(***************************************************************************)
\* C20: chunk ids are unique: any two distinct chunks produced by the
\* strategy calls of one page, by the same call or by different calls, on
\* the same or on different documents, have different ids.
C20_ChunkIdsUnique ==
    /\ \A i, j \in 1..Len(chunks) : chunks[i].id = chunks[j].id => i = j
    /\ \A f, g \in DOMAIN chunksData :
          \A i \in 1..Len(chunksData[f]) : \A j \in 1..Len(chunksData[g]) :
              chunksData[f][i].id = chunksData[g][j].id => (f = g /\ i = j)

(***************************************************************************)
(* Fixed-Size on documents that fit one chunk.                             *)
(***************************************************************************)
MaxTitled == 3

\* a heading as a word processor's converter emits it, with a bookmark anchor
\* ahead of its text: <h1><a></a>w</h1>
anchoredHeading(base) ==
    [type |-> "heading", level |-> 1, text |-> << <<Word(base + 1, FALSE, 1)>> >>,
     html |-> << <<Open(<<"h", 1>>), Open(<<"a", 0>>), Close(<<"a", 0>>),
                   Word(base + 1, FALSE, 1), Close(<<"h", 1>>)>> >>,
     page |-> 1]

\* block kinds of the titled documents: headings of two levels, an anchored
\* heading, a two-word heading and two paragraphs
TitledKinds == {"h1", "h2", "anchored", "long", "p", "pp"}

titledBlock(kind, base) ==
    CASE kind = "h1" -> blockOfShape(Shape("heading", 1, << <<FALSE, 1>> >>), base)
      [] kind = "h2" -> blockOfShape(Shape("heading", 2, << <<FALSE, 1>> >>), base)
      [] kind = "long" -> blockOfShape(Shape("heading", 1, << <<FALSE, 1>>, <<FALSE, 1>> >>), base)
      [] kind = "anchored" -> anchoredHeading(base)
      [] kind = "p" -> blockOfShape(Shape("paragraph", 0, << <<TRUE, 1>> >>), base)
      [] kind = "pp" -> blockOfShape(Shape("paragraph", 0, << <<FALSE, 1>>, <<TRUE, 1>> >>), base)

TitledDocuments ==
    {[blocks |-> [i \in 1..Len(q) |-> titledBlock(q[i], 10 * i)],
      sourceFile |-> "doc", sourceType |-> "docx"] : q \in SeqsUpTo(TitledKinds, MaxTitled)}

TitledOptions == [maxTokens : {6, 9, 15}, overlapTokens : {0, 2}]

TitledInit ==
    /\ structure \in TitledDocuments
    /\ options = <<>>
    /\ strategyId = "none"
    /\ chunks = <<>>
    /\ now = 0
    /\ swPos = 0
    /\ swIter = 0
    /\ phase = "ready"
    /\ PageInit

\* strategy.chunk(structure, options, globalMetadata) of Fixed-Size
ChunkTitled ==
    /\ phase = "ready"
    /\ \E o \in TitledOptions :
          /\ options' = o
          /\ chunks' = FixedSize(structure, o, now)
    /\ strategyId' = "fixed-size"
    /\ phase' = "done"
    /\ UNCHANGED <<structure, now, swPos, swIter>>
    /\ UNCHANGED pageVars

TitledSpec == TitledInit /\ [][ChunkTitled]_vars

\* the text of the first Heading block of the structure, <<>> without one
FirstHeadingText ==
    LET hs == SelectSeq(structure.blocks, IsHeading)
    IN  IF hs = <<>> THEN <<>> ELSE Flatten(hs[1].text)

\* C21: for a non-empty sequence of blocks whose combined size does not
\* exceed maxTokens, Fixed-Size returns exactly one chunk; it holds every
\* block's markup in source order and is titled "Chunk 1: " followed by the
\* text of the first heading in it, or by "Section" when it holds no heading.
C21_OneTitledChunk ==
    (/\ phase = "done"
     /\ strategyId = "fixed-size"
     /\ structure.blocks # <<>>
     /\ countTokens(Flatten(FS_htmlBlocks)) <= FS_opts.maxTokens) =>
        /\ Len(chunks) = 1
        /\ chunks[1].content = Flatten(FS_htmlBlocks)
        /\ chunks[1].title = [number |-> 1, heading |-> FirstHeadingText]

(***************************************************************************)
(* Sliding-Window: recorded start offsets.                                 *)
(***************************************************************************)
\* stepSize of SlidingWindowStrategy.chunk
SW_stepSize == SW_opts.windowSize - SW_opts.overlapSize

\* 0 <= overlapSize < windowSize
SW_overlapBelowWindow ==
    /\ 0 <= SW_opts.overlapSize
    /\ SW_opts.overlapSize < SW_opts.windowSize

\* the starts k * stepSize that lie inside the stream
SW_startsInside == {k \in 0..Len(SW_tokens) : k * SW_stepSize < Len(SW_tokens)}

\* C22: Sliding-Window with 0 <= overlapSize < windowSize: the k-th chunk
\* records the start offset (k - 1) * (windowSize - overlapSize), whatever
\* the boundary snapping did to the ends of the windows, and a finished
\* call over a stream longer than one window has one chunk per such offset
\* inside the stream.
C22_StartOffsets ==
    (strategyId = "sliding-window" /\ SW_overlapBelowWindow)
        => /\ \A k \in ChunkIdx : chunks[k].windowIndex = (k - 1) * SW_stepSize
           /\ (phase = "done" /\ ~SW_fitsOneWindow(structure, SW_opts)
               /\ buildTextStream(structure) # <<>>)
                  => Len(chunks) = Cardinality(SW_startsInside)

\* C22 witness: a finished call with sentence snapping in which a window
\* that is not the last one ended away from its nominal end
C22_Witness ==
    /\ phase = "done" /\ strategyId = "sliding-window" /\ SW_overlapBelowWindow
    /\ options.preserveSentenceBoundaries
    /\ Len(chunks) >= 3
    /\ \E k \in 1..(Len(chunks) - 1) :
          Len(plainWords(chunks[k].content)) # SW_opts.windowSize

(***************************************************************************)
(* Sliding-Window: streams of at most one window.                          *)
(***************************************************************************)
\* the words of the stream, in order
SW_streamWords == Flatten(SW_tokens)

\* totalTokens of SlidingWindowStrategy.chunk
SW_totalTokens == countTokens(Flatten(buildTextStream(structure)))

SW_finished == phase = "done" /\ strategyId = "sliding-window"

\* C23 as stated: a non-empty stream of at most windowSize units comes back
\* as exactly one chunk that holds the entire stream, and an empty stream
\* yields no chunk.
C23_OneChunkUpToWindowUnits ==
    SW_finished =>
       /\ SW_tokens = <<>> => chunks = <<>>
       /\ (SW_tokens # <<>> /\ Len(SW_tokens) <= SW_opts.windowSize)
             => /\ Len(chunks) = 1
                /\ plainWords(chunks[1].content) = SW_streamWords

\* C23 amended: an empty stream yields no chunk; a non-empty stream whose
\* token count is at most windowSize comes back as exactly one chunk, the
\* stream's paragraphs in order; a stream of at most windowSize units whose
\* token count exceeds windowSize goes through the window loop, where the
\* first chunk holds the entire stream and, with 0 <= overlapSize <
\* windowSize, one chunk follows for every further start offset inside the
\* stream.
C23_OneChunkUpToWindowTokens ==
    SW_finished =>
       /\ SW_tokens = <<>> => chunks = <<>>
       /\ (SW_tokens # <<>> /\ SW_totalTokens <= SW_opts.windowSize)
             => /\ Len(chunks) = 1
                /\ chunks[1].content = buildHTMLFromText(buildTextStream(structure))
                /\ chunks[1].windowIndex = 0
       /\ (Len(SW_tokens) <= SW_opts.windowSize /\ SW_totalTokens > SW_opts.windowSize)
             => /\ chunks # <<>>
                /\ plainWords(chunks[1].content) = SW_streamWords
                /\ SW_overlapBelowWindow => Len(chunks) = Cardinality(SW_startsInside)

\* C23 witness: a finished call on a stream of several paragraphs whose
\* token count is at most windowSize
C23_Witness ==
    /\ SW_finished
    /\ Len(buildTextStream(structure)) >= 2
    /\ SW_totalTokens <= SW_opts.windowSize
    /\ Len(chunks) = 1

(***************************************************************************)
(* The Block Normalizer on a parsed document: processElement walks the     *)
(* element tree under body.  An element is its tag (name, heading level),  *)
(* its data-source and data-page attributes (source "none": no             *)
(* data-source attribute, page 0: no data-page attribute), its own text    *)
(* nodes and its child elements; script and style elements and the         *)
(* outerHTML of the blocks are left out.                                   *)
(***************************************************************************)
MaxElements == 3

Element(tag, source, page, text, children) ==
    [tag |-> tag, source |-> source, page |-> page, text |-> text, children |-> children]

RECURSIVE textContent(_)
RECURSIVE textOfAll(_)
\* element.textContent?.trim() || '' (getTextContent, getPlainText)
textContent(el) == el.text \o textOfAll(el.children)

textOfAll(els) ==
    IF els = <<>> THEN <<>> ELSE textContent(Head(els)) \o textOfAll(Tail(els))

\* the tags whose branch of processElement pushes a block and returns
TerminalTags == {"h", "p", "li", "table", "pre"}

\* ['div', 'section', 'blockquote', 'article', 'aside']
GenericTags == {"div", "section", "blockquote", "article", "aside"}

ListTags == {"ul", "ol"}

\* tagName === 'div' && element.hasAttribute('data-source')
IsMarker(el) == el.tag[1] = "div" /\ el.source # "none"

\* a marker branch that reads every data-page as a page number
enterMarkerAsPage(el, st) ==
    [st EXCEPT !.currentPage = IF el.source \in {"pdf", "pptx"} /\ el.page # 0 THEN el.page ELSE @]

\* the page/slide container branch: the cursors currentPage and currentSlide
enterMarker(el, st) ==
    [st EXCEPT !.currentPage = IF el.source = "pdf" /\ el.page # 0 THEN el.page ELSE @,
               !.currentSlide = IF el.source = "pptx" /\ el.page # 0 THEN el.page ELSE @]

\* the level of a list item: 1, one more for every ul/ol directly inside a ul/ol
listLevel(ctx) == IF ctx.lists = 0 THEN 1 ELSE ctx.lists

\* blocks.push({ type, level, text, html, metadata: { source, page, slide } })
pushBlock(st, type, level, text) ==
    [st EXCEPT !.blocks = Append(@, [type |-> type, level |-> level, text |-> text,
                                       page |-> st.currentPage, slide |-> st.currentSlide])]

\* the walk context of the children of el: source type and list nesting
childContext(el, ctx) ==
    [ctx EXCEPT !.lists = IF el.tag[1] \in ListTags
                          THEN (IF ctx.inList THEN ctx.lists + 1 ELSE 1)
                          ELSE ctx.lists,
                !.inList = el.tag[1] \in ListTags]

RECURSIVE processElement(_, _, _)
RECURSIVE processChildren(_, _, _)
\* processElement of htmlToDocumentBlocks (st: blocks, currentPage, currentSlide)
processElement(el, st, ctx) ==
    LET name == el.tag[1]
        text == textContent(el)
    IN  IF IsMarker(el)
        THEN processChildren(el.children, enterMarker(el, st), childContext(el, ctx))
        ELSE IF name \in TerminalTags
        THEN IF text = <<>> THEN st
             ELSE pushBlock(st,
                            CASE name = "h" -> IF ctx.sourceType = "pptx" THEN "slideTitle"
                                               ELSE "heading"
                              [] name = "p" -> "paragraph"
                              [] name = "li" -> "listItem"
                              [] name = "table" -> "table"
                              [] name = "pre" -> "code",
                            CASE name = "h" -> el.tag[2]
                              [] name = "li" -> listLevel(ctx)
                              [] OTHER -> 0,
                            text)
        ELSE IF name \in GenericTags /\ text # <<>> /\ el.children = <<>>
        THEN pushBlock(st, "other", 0, text)
        ELSE processChildren(el.children, st, childContext(el, ctx))

\* Array.from(element.children).forEach(child => processElement(child))
processChildren(els, st, ctx) ==
    IF els = <<>> THEN st
    ELSE processChildren(Tail(els), processElement(Head(els), st, ctx), ctx)

\* htmlToDocumentBlocks from the walk over body.children on
documentBlocksOf(body, sourceType, sourceFile) ==
    [blocks |-> processChildren(body, [blocks |-> <<>>, currentPage |-> 0, currentSlide |-> 0],
                                [sourceType |-> sourceType, lists |-> 0, inList |-> FALSE]).blocks,
     sourceFile |-> sourceFile, sourceType |-> sourceType]

\* a text node of one word
TextNode(i) == << <<Word(i, FALSE, 1)>> >>

Leaf(tag, level, i) == Element(<<tag, level>>, "none", 0, TextNode(i), <<>>)

Container(tag, text, children) == Element(<<tag, 0>>, "none", 0, text, children)

PageContainer(source, page, children) == Element(<<"div", 0>>, source, page, <<>>, children)

ElementShapes ==
    {"p", "h", "blank", "quote", "mixed", "wrapper", "page1", "page2", "slide1",
     "nopage", "listed", "nested"}

\* the element of a shape; its words are numbered from base in document order
elementOfShape(shape, base) ==
    CASE shape = "p" -> Leaf("p", 0, base + 1)
      [] shape = "h" -> Leaf("h", 1, base + 1)
      [] shape = "blank" -> Container("p", <<>>, <<>>)
      [] shape = "quote" -> Leaf("blockquote", 0, base + 1)
      [] shape = "mixed" -> Container("div", TextNode(base + 1), <<Leaf("p", 0, base + 2)>>)
      [] shape = "wrapper" ->
            Container("section", <<>>, <<Leaf("p", 0, base + 1), Leaf("div", 0, base + 2)>>)
      [] shape = "page1" -> PageContainer("pdf", 1, <<Leaf("p", 0, base + 1)>>)
      [] shape = "page2" ->
            PageContainer("pdf", 2, <<Leaf("h", 2, base + 1), Leaf("p", 0, base + 2)>>)
      [] shape = "slide1" ->
            PageContainer("pptx", 1, <<Container("div", <<>>, <<Leaf("h", 2, base + 1)>>)>>)
      [] shape = "nopage" -> PageContainer("pdf", 0, <<Leaf("p", 0, base + 1)>>)
      [] shape = "listed" ->
            Container("ul", <<>>,
                <<Container("li", TextNode(base + 1),
                            <<PageContainer("pdf", 2, <<Leaf("p", 0, base + 2)>>)>>),
                  Container("ul", <<>>, <<Leaf("li", 0, base + 3)>>)>>)
      [] shape = "nested" ->
            PageContainer("pdf", 1,
                <<PageContainer("pdf", 2, <<Leaf("p", 0, base + 1)>>),
                  Leaf("p", 0, base + 2)>>)

BodyOf(shapes) == [i \in 1..Len(shapes) |-> elementOfShape(shapes[i], 10 * i)]

ParsedDocuments == {BodyOf(q) : q \in SeqsUpTo(ElementShapes, MaxElements)}

SourceTypes == {"pdf", "docx", "pptx"}

NormalizerInit ==
    /\ dom \in ParsedDocuments
    /\ instanceDefaults = PublishedDefaults
    /\ structure = DocOf(<<>>)
    /\ options = <<>>
    /\ strategyId = "none"
    /\ chunks = <<>>
    /\ now = 0
    /\ swPos = 0
    /\ swIter = 0
    /\ phase = "ready"
    /\ strategies = [id \in BuiltInStrategies |-> id]
    /\ registered = BuiltInRegistrations
    /\ files = <<>>
    /\ chunksData = <<>>
    /\ selectedFileId = Null
    /\ selectedChunkId = Null
    /\ fileChunkingConfig = <<>>
    /\ chunkSize = 1000
    /\ overlapSize = 150
    /\ pending = {}
    /\ issued = 0
    /\ outcome = NoOutcome

\* htmlToDocumentBlocks(html, sourceType, sourceFile) on the parsed document
NormalizeDocument ==
    /\ phase = "ready"
    /\ \E sourceType \in SourceTypes :
          structure' = documentBlocksOf(dom, sourceType, "doc")
    /\ phase' = "done"
    /\ UNCHANGED <<options, strategyId, chunks, now, swPos, swIter>>
    /\ UNCHANGED pageVars

NormalizerSpec == NormalizerInit /\ [][NormalizeDocument]_vars

\* the paths (child indexes from body down) of the elements of the document
RECURSIVE PathsOf(_)
PathsOf(els) ==
    UNION { {<<i>>} \cup {<<i>> \o q : q \in PathsOf(els[i].children)} : i \in 1..Len(els) }

RECURSIVE ElementAt(_, _)
ElementAt(els, path) ==
    IF Len(path) = 1 THEN els[path[1]]
    ELSE ElementAt(els[path[1]].children, Tail(path))

\* document order: p is an ancestor of q, or p branches off to the left of q
Before(p, q) ==
    \/ Len(p) < Len(q) /\ SubSeq(q, 1, Len(p)) = p
    \/ \E k \in 1..Min(Len(p), Len(q)) :
          /\ SubSeq(p, 1, k - 1) = SubSeq(q, 1, k - 1)
          /\ p[k] < q[k]

\* processElement goes on to the children of the element
Descends(el) ==
    \/ IsMarker(el)
    \/ /\ el.tag[1] \notin TerminalTags
       /\ ~(el.tag[1] \in GenericTags /\ textContent(el) # <<>> /\ el.children = <<>>)

\* processElement is called on the element at the path
Entered(path) ==
    \A k \in 1..(Len(path) - 1) : Descends(ElementAt(dom, SubSeq(path, 1, k)))

Normalized == phase = "done" /\ strategyId = "none" /\ dom # <<>>

\* the entered generic containers that are no page/slide containers and have
\* text nodes of their own
TextContainers ==
    {p \in PathsOf(dom) :
        /\ Entered(p)
        /\ ElementAt(dom, p).tag[1] \in GenericTags
        /\ ~IsMarker(ElementAt(dom, p))
        /\ ElementAt(dom, p).text # <<>>}

\* C24: every generic container (div, section, blockquote, article, aside)
\* the walk reaches that has direct text of its own is emitted as one Other
\* block carrying its text, and every word of its direct text is in the
\* text of some emitted block.
C24_DirectTextKept ==
    Normalized =>
        \A p \in TextContainers :
           /\ \E i \in 1..Len(structure.blocks) :
                 /\ structure.blocks[i].type = "other"
                 /\ structure.blocks[i].text = textContent(ElementAt(dom, p))
           /\ \A w \in 1..Len(ElementAt(dom, p).text) :
                 \E i \in 1..Len(structure.blocks) :
                    \E u \in 1..Len(structure.blocks[i].text) :
                       structure.blocks[i].text[u] = ElementAt(dom, p).text[w]

\* the elements whose visit pushes a block
Emitting ==
    {p \in PathsOf(dom) :
        /\ Entered(p)
        /\ ~Descends(ElementAt(dom, p))
        /\ textContent(ElementAt(dom, p)) # <<>>}

\* the data-page of the page/slide container of this source entered last
\* before the element at the path (0: none entered)
LastEntered(source, path) ==
    LET M == {m \in PathsOf(dom) :
                 /\ Entered(m) /\ Before(m, path)
                 /\ IsMarker(ElementAt(dom, m))
                 /\ ElementAt(dom, m).source = source
                 /\ ElementAt(dom, m).page # 0}
    IN  IF M = {} THEN 0
        ELSE ElementAt(dom, CHOOSE m \in M : \A n \in M \ {m} : Before(n, m)).page

\* the i-th emitting element in document order
EmittingAt(i) ==
    CHOOSE p \in Emitting : Cardinality({q \in Emitting : Before(q, p)}) = i - 1

\* C25: the blocks are the elements that emit, in depth-first document
\* order, each with its non-empty text; each block carries as page the
\* data-page of the pdf page container entered last before it and as slide
\* that of the pptx slide container entered last before it, also when the
\* block lies outside that container.
C25_OrderedWithStickyCursor ==
    Normalized =>
       /\ Len(structure.blocks) = Cardinality(Emitting)
       /\ \A i \in 1..Len(structure.blocks) :
             /\ structure.blocks[i].text # <<>>
             /\ structure.blocks[i].text = textContent(ElementAt(dom, EmittingAt(i)))
             /\ structure.blocks[i].page = LastEntered("pdf", EmittingAt(i))
             /\ structure.blocks[i].slide = LastEntered("pptx", EmittingAt(i))

\* C25 witness: a block of a paragraph directly under body, outside every
\* page container, that carries the page of a container entered before it,
\* after a block that carries another page
C25_Witness ==
    /\ Normalized
    /\ \E i \in 1..Len(structure.blocks) : \E k \in 1..Len(dom) :
          /\ dom[k].tag[1] = "p"
          /\ structure.blocks[i].text = dom[k].text
          /\ structure.blocks[i].page = 2
          /\ \E j \in 1..(i - 1) : structure.blocks[j].page = 1

(***************************************************************************)
(* Strategy calls one after another on the shared strategy instances: what *)
(* a call leaves behind in the objects it was given.                       *)
(***************************************************************************)
MaxCalls == 2

\* const opts = { ...this.defaultOptions, ...options } written as
\* Object.assign(this.defaultOptions, options): the instance's defaults take
\* the caller's values
defaultsAfterAssign(d, id, o) == [d EXCEPT ![id] = mergeOptions(d[id], o)]

\* the instance's defaultOptions after chunk(): the spread builds a new
\* object, the instance's own record is only read
defaultsAfterCall(d, id, o) == d

\* strategy.chunk(structure, options) on the instance registered under id,
\* whose defaultOptions are d[id]
callStrategy(id, s, o, d, t) == runStrategy(id, s, mergeOptions(d[id], o), t)

\* option records of the calls: complete ones, and partial ones that leave
\* options to the defaults
CallOptions(id) ==
    CASE id = "fixed-size" ->
            {[maxTokens |-> 4, overlapTokens |-> 0], [maxTokens |-> 6, overlapTokens |-> 2],
             [maxTokens |-> 4]}
      [] id = "heading-aware" ->
            {[maxTokens |-> 4, overlapTokens |-> 3], [maxTokens |-> 6, overlapTokens |-> 0],
             [maxTokens |-> 6]}
      [] id = "paragraph-aware" ->
            {[maxTokens |-> 4, overlapTokens |-> 3],
             [maxTokens |-> 6, overlapTokens |-> 0, minParagraphsPerChunk |-> 2,
              maxParagraphsPerChunk |-> 2],
             [maxTokens |-> 4]}
      [] id = "sliding-window" ->
            {[windowSize |-> 2, overlapSize |-> 1, preserveSentenceBoundaries |-> TRUE],
             [windowSize |-> 3, overlapSize |-> 0, preserveSentenceBoundaries |-> FALSE],
             [windowSize |-> 2]}

MaxCallBlocks == 2

CallsInit ==
    /\ structure \in {DocOf(q) : q \in SeqsUpTo(ShapeSet, MaxCallBlocks)}
    /\ options = <<>>
    /\ strategyId = "none"
    /\ chunks = <<>>
    /\ now = 0
    /\ swPos = 0
    /\ swIter = 0
    /\ phase = "ready"
    /\ PageInit

\* one synchronous strategy.chunk call; outcome.options keeps the record the
\* caller passed, options is that record after the call
StrategyCall ==
    /\ issued < MaxCalls
    /\ \E id \in BuiltInStrategies : \E o \in CallOptions(id) :
          /\ chunks' = callStrategy(id, structure, o, instanceDefaults, now)
          /\ instanceDefaults' = defaultsAfterCall(instanceDefaults, id, o)
          /\ options' = o
          /\ strategyId' = id
          /\ outcome' = [kind |-> "call", result |-> "chunks", strategyId |-> id,
                         options |-> o, ran |-> TRUE]
    /\ issued' = issued + 1
    /\ phase' = "done"
    /\ UNCHANGED <<structure, now, swPos, swIter>>
    /\ UNCHANGED <<strategies, registered, dom, files, chunksData, selectedFileId,
                   selectedChunkId, fileChunkingConfig, chunkSize, overlapSize, pending>>

CallsSpec == CallsInit /\ [][StrategyCall]_vars

HeadingBlocks == {i \in 1..Len(structure.blocks) : IsHeading(structure.blocks[i])}

Resumed(p) == p \in pending /\ p \notin pending'

\* C28: the completion of a re-chunk of file A leaves the chunk list of
\* every other file in the chunk map as it is at that moment, whatever
\* completed while the re-chunk was suspended (a load that added file B, a
\* re-chunk of B), and when the re-chunk stores its list the map holds it
\* under A.
C28_OtherListsKept ==
    [][\A p \in pending :
          (Resumed(p) /\ p.kind = "rechunk")
             => /\ \A f \in DOMAIN chunksData :
                      f # p.fileId
                         => f \in DOMAIN chunksData' /\ chunksData'[f] = chunksData[f]
                /\ outcome'.result = "stored" => chunksData'[p.fileId] = chunks']_vars

(***************************************************************************)
(* The page: the selection.                                                *)
(***************************************************************************)
\* chunksData[selectedFileId] || []
selectedFileChunks ==
    IF selectedFileId # Null /\ selectedFileId \in DOMAIN chunksData
    THEN chunksData[selectedFileId] ELSE <<>>

\* C29: the selected chunk id is null or the id of a chunk in the chunk list
\* of the currently selected file.
C29_SelectedChunkInSelectedFile ==
    \/ selectedChunkId = Null
    \/ \E i \in 1..Len(selectedFileChunks) : selectedFileChunks[i].id = selectedChunkId

(***************************************************************************)
(* The page: what a re-chunk runs the strategy on.                         *)
(***************************************************************************)
\* the last request was a re-chunk that stored its list
RechunkStored == outcome.kind = "rechunk" /\ outcome.result = "stored"

\* C30: a re-chunk runs the strategy on the file's document content without
\* seeded overlap: the Document Structure it hands to the strategy holds
\* every word of the document once, so the text of the file's chunks cannot
\* grow from one re-chunk to the next.
C30_RechunkOnDocumentContent ==
    RechunkStored => Dedup(SourceWords) = SourceWords

====
